---- MODULE Spec2Model ----
(***************************************************************************)
(* Model of AutoSeq's mSeq orchestrator, MseqAutomation                    *)
(* (src/AutoSeq/core/automation.py): process_folder, connect_or_start_mseq *)
(* and close, with the helpers they call.                                  *)
(*                                                                         *)
(* The external application is an environment whose answers are drawn      *)
(* nondeterministically at every call the code makes to it.  Calls that    *)
(* act on the UI (connect, start, set_focus, send_keys, click_input,       *)
(* expand, close, kill, tree queries) may raise; Application.window(),     *)
(* child_window() (lazy specifications) and exists() (a boolean query)     *)
(* do not raise.  The names Application, timings, findwindows and          *)
(* send_keys are taken to be bound to the pywinauto library when the       *)
(* methods run.                                                            *)
(***************************************************************************)
EXTENDS Integers, Sequences, FiniteSets, TLC

\* ---------------------------------------------------------------- bounds
\* number of process_folder / close invocations on one orchestrator
MaxCalls == 2
\* ProcessMonitor.max_wait, in units of ProcessMonitor.interval (0.5 s)
MaxWaitTicks == 2
\* largest number of output text files the environment shows in one poll
MaxTxt == 6

\* ------------------------------------------------------ program constants
\* wait_for_completion: "if txt_count >= 5"
TxtThreshold == 5

\* handle value of self.app / self.main_window after __init__
None == 0

VARIABLES
    pc,                   \* position inside process_folder, or "idle"/"done"
    ret,                  \* outcome of the last process_folder call
    app,                  \* self.app: None or the id of an Application
    main_window,          \* self.main_window: None or the id of a window spec
    first_time_browsing,  \* self.first_time_browsing
    elapsed,              \* wait_for_completion's elapsed, in intervals
    trace,                \* external interactions of the current call
    h,                    \* what the current call observed (history)
    calls,                \* invocations made so far
    lastOp,               \* "none", "process_folder" or "close"
    closeLog,             \* external interactions of the last close()
    closeRaised,          \* did the last close() raise
    browse_open,          \* is the application's browse-folder dialog on screen
    wd,                   \* one DialogHandler.wait_for_dialog call
    wc,                   \* one ProcessMonitor.wait_for_completion call
    nv,                   \* one FileNavigator.navigate_to_folder call
    pu,                   \* one use of PathUtilities / RegexPatterns
    fs,                   \* a FileSystem object and the directories it works on
    desk                  \* two orchestrators at work on one desktop

vars == <<pc, ret, app, main_window, first_time_browsing, elapsed, trace, h,
          calls, lastOp, closeLog, closeRaised, browse_open, wd, wc, nv, pu, fs, desk>>

\* the orchestrator's variables, and those of the component models
OrchVars == <<pc, ret, app, main_window, first_time_browsing, elapsed, trace, h,
              calls, lastOp, closeLog, closeRaised, browse_open>>
Aux == <<wd, wc, nv, pu, fs, desk>>
\* value of a component variable while that component is not being run
Unused == [pc |-> "unused"]

\* --------------------------------------------------------------- inputs
PathKinds == {"missing", "file", "no_ab1", "has_ab1"}
AttachOutcomes == {"found", "notfound", "ambiguous", "raise"}
CallOutcomes == {"ok", "raise"}
NavOutcomes == {"focus_raises", "no_tree", "no_desktop", "click_raises",
                "no_this_pc", "no_drive", "no_folder", "ok"}
ReadInfoOutcomes == {"none", "some", "raise"}
\* Application.window() on a connected application builds a lazy
\* specification and does not raise
WindowRaises == {FALSE}

\* history of one call, before anything was observed
H0 == [kind |-> "na", entryApp |-> None, entryMain |-> None, entryFirst |-> TRUE,
       mwExists |-> "na", attach |-> "na", startOk |-> FALSE,
       launchAttachOk |-> FALSE,
       mainWinUp |-> FALSE, connectResult |-> "na",
       browse |-> "na", nav |-> "na",
       afterNavFailure |-> FALSE, keyWhileBrowse |-> "na",
       pref |-> "na", copy |-> "na", err |-> "na", errWait |-> "na",
       callb |-> "na",
       completion |-> "na"]

YesNo(b) == IF b THEN "yes" ELSE "no"

\* ------------------------------------------------------------- helpers

\* process_folder, lines 519-527: the two fail-fast checks
ValidationPasses_NoExtCheck(kind) == kind \in {"no_ab1", "has_ab1"}
ValidationPasses(kind) == kind = "has_ab1"

\* DialogHandler.wait_for_dialog: true when the window matched within the
\* timeout, false on timings.TimeoutError and for an unknown kind
DialogKinds == {"browse_dialog", "preferences", "copy_files", "error_window",
                "call_bases", "read_info"}
wait_for_dialog(dialog_type, appeared) ==
    IF dialog_type \in DialogKinds THEN appeared ELSE FALSE

\* DialogHandler.get_dialog: the specification, or None when window() raises
get_dialog(windowRaises) == IF windowRaises THEN "None" ELSE "spec"

\* DialogHandler.get_browse_dialog: first existing exact title, else the
\* regex specification (not checked for existence)
get_browse_dialog(e1, e2, windowRaises) ==
    IF get_dialog(windowRaises) # "None" /\ e1 THEN "spec"
    ELSE IF get_dialog(windowRaises) # "None" /\ e2 THEN "spec"
    ELSE get_dialog(windowRaises)

\* DialogHandler.get_dialog_by_titles over two candidate titles
get_dialog_by_titles(e1, e2, windowRaises) ==
    IF get_dialog(windowRaises) # "None" /\ (e1 \/ e2) THEN "spec" ELSE "None"

\* DialogHandler.close_all_read_info_dialogs: len(read_windows) > 0, and
\* False when the enumeration raised
close_all_read_info_dialogs(outcome) == outcome = "some"

\* ProcessMonitor.wait_for_completion, lines 387-403: the checks of one
\* pass of the loop and the signal that ends the wait, if any
poll_once_StrictCount(low1, low2, ri, txt_count) ==
    IF low1 \/ low2
    THEN [signal |-> "low_quality", checks |-> <<"low_quality", "click_ok">>]
    ELSE IF close_all_read_info_dialogs(ri)
    THEN [signal |-> "read_info", checks |-> <<"low_quality", "close_read_info">>]
    ELSE [signal |-> IF txt_count > TxtThreshold THEN "files" ELSE "none",
          checks |-> <<"low_quality", "close_read_info", "count_files">>]
poll_once_FilesFirst(low1, low2, ri, txt_count) ==
    IF txt_count >= TxtThreshold
    THEN [signal |-> "files", checks |-> <<"count_files">>]
    ELSE IF low1 \/ low2
    THEN [signal |-> "low_quality",
          checks |-> <<"count_files", "low_quality", "click_ok">>]
    ELSE [signal |-> IF close_all_read_info_dialogs(ri) THEN "read_info" ELSE "none",
          checks |-> <<"count_files", "low_quality", "close_read_info">>]
poll_once(low1, low2, ri, txt_count) ==
    IF low1 \/ low2
    THEN [signal |-> "low_quality", checks |-> <<"low_quality", "click_ok">>]
    ELSE IF close_all_read_info_dialogs(ri)
    THEN [signal |-> "read_info", checks |-> <<"low_quality", "close_read_info">>]
    ELSE [signal |-> IF txt_count >= TxtThreshold THEN "files" ELSE "none",
          checks |-> <<"low_quality", "close_read_info", "count_files">>]

\* FileNavigator.navigate_to_folder: result for each way the tree answers
navigate_to_folder(outcome) ==
    CASE outcome \in {"focus_raises", "click_raises"} -> "raise"
      [] outcome \in {"no_tree", "no_desktop", "no_this_pc", "no_drive",
                      "no_folder"} -> "false"
      [] OTHER -> "true"

\* MseqAutomation.__init__ sets config, logger, the three components, app,
\* main_window and first_time_browsing: there is no attribute "timeouts"
HasTimeoutsAttr == FALSE

\* MseqAutomation.connect_or_start_mseq (the second, effective definition).
\* id is the handle given to objects created by this call.
connect_or_start_mseq(a, mw, id, attach, again, start, launchAttach, wf) ==
    LET attached ==
          CASE attach = "found" -> [exc |-> "none", app |-> id, ev |-> <<"attach">>]
            [] attach = "notfound" ->
                 IF start = "raise"
                 THEN [exc |-> "UIError", app |-> a, ev |-> <<"attach", "launch">>]
                 ELSE IF ~HasTimeoutsAttr
                 THEN [exc |-> "AttributeError", app |-> id, ev |-> <<"attach", "launch">>]
                 ELSE IF launchAttach = "raise"
                 THEN [exc |-> "UIError", app |-> id, ev |-> <<"attach", "launch">>]
                 ELSE [exc |-> "none", app |-> id, ev |-> <<"attach", "launch">>]
            [] attach = "ambiguous" ->
                 IF again = "raise"
                 THEN [exc |-> "UIError", app |-> a, ev |-> <<"attach", "attach">>]
                 ELSE [exc |-> "none", app |-> id, ev |-> <<"attach", "attach">>]
            [] OTHER -> [exc |-> "UIError", app |-> a, ev |-> <<"attach">>]
    IN IF attached.exc # "none"
       THEN [result |-> attached.exc, app |-> attached.app, main_window |-> mw,
             ev |-> attached.ev]
       ELSE \* the loop over the two title patterns always leaves a
            \* specification in self.main_window; wf is the answer of the
            \* final self.main_window.exists()
            IF wf
            THEN [result |-> "returned", app |-> id, main_window |-> id,
                  ev |-> attached.ev]
            ELSE [result |-> "RuntimeError", app |-> id, main_window |-> id,
                  ev |-> attached.ev]

\* process_folder, line 536: reconnect unless both handles are live
NeedsConnect_HandlesOnly(a, mw, mwExists) == a = None \/ mw = None
NeedsConnect(a, mw, mwExists) == a = None \/ mw = None \/ ~mwExists

\* process_folder, lines 557-559: the flag after the first-browse delay
after_first_browse_Toggled(flag) == ~flag
after_first_browse(flag) == IF flag THEN FALSE ELSE flag

\* process_folder, lines 546-549 and 551-554: a missing browse dialog is fatal
BrowseFatal_Ignored(dialog_found) == FALSE
BrowseFatal(dialog_found) == ~dialog_found

\* process_folder, lines 562-564: the failure path returns at once and
\* does nothing to the browse dialog
after_failed_navigation_Cancel(open) == FALSE
after_failed_navigation(open) == open

\* process_folder, lines 562-564: failed navigation is fatal
NavigationFatal(result) == result = "false"

\* process_folder, lines 570, 576, 584, 590: the result of the wait for an
\* optional dialog is discarded and the next step follows
AfterOptionalWait_Fatal(dialog_found, next) ==
    IF dialog_found THEN next ELSE "return_false"
AfterOptionalWait(dialog_found, next) == next

\* process_folder, lines 539-599: the order of the steps
NextStep_Swapped(step) ==
    CASE step = "validate" -> "preclean"
      [] step = "preclean" -> "connect"
      [] step = "connect" -> "new_project"
      [] step = "new_project" -> "wait_browse"
      [] step = "wait_browse" -> "get_browse"
      [] step = "get_browse" -> "navigate"
      [] step = "navigate" -> "click_ok"
      [] step = "click_ok" -> "preferences"
      [] step = "preferences" -> "copy_files"
      [] step = "copy_files" -> "call_bases"
      [] step = "call_bases" -> "error_window"
      [] step = "error_window" -> "wait_for_completion"
      [] step = "wait_for_completion" -> "postclean"
      [] OTHER -> "done"
NextStep(step) ==
    CASE step = "validate" -> "preclean"
      [] step = "preclean" -> "connect"
      [] step = "connect" -> "new_project"
      [] step = "new_project" -> "wait_browse"
      [] step = "wait_browse" -> "get_browse"
      [] step = "get_browse" -> "navigate"
      [] step = "navigate" -> "click_ok"
      [] step = "click_ok" -> "preferences"
      [] step = "preferences" -> "copy_files"
      [] step = "copy_files" -> "error_window"
      [] step = "error_window" -> "call_bases"
      [] step = "call_bases" -> "wait_for_completion"
      [] step = "wait_for_completion" -> "postclean"
      [] OTHER -> "done"

\* process_folder, lines 598-599: the cleanup before returning is unconditional
CleanupBeforeReturn_OnSuccessOnly(completion_success) == completion_success
CleanupBeforeReturn(completion_success) == TRUE

\* process_folder, lines 601-607: the value returned after completion detection
ProcessResult_AlwaysTrue(completion_success) == "true"
ProcessResult(completion_success) ==
    IF completion_success THEN "true" ELSE "false"

\* MseqAutomation.close, lines 609-622
close_SwallowNothing(a, mw, kill, mwExists, mwClose) ==
    IF a = None THEN [log |-> <<>>, raised |-> FALSE]
    ELSE IF kill = "ok" THEN [log |-> <<"kill_ok">>, raised |-> FALSE]
    ELSE IF mw # None /\ mwExists
         THEN IF mwClose = "ok"
              THEN [log |-> <<"kill_raised", "close_window_ok">>, raised |-> FALSE]
              ELSE [log |-> <<"kill_raised", "close_window_raised">>, raised |-> TRUE]
         ELSE [log |-> <<"kill_raised">>, raised |-> FALSE]
close(a, mw, kill, mwExists, mwClose) ==
    IF a = None THEN [log |-> <<>>, raised |-> FALSE]
    ELSE IF kill = "ok" THEN [log |-> <<"kill_ok">>, raised |-> FALSE]
    ELSE IF mw # None /\ mwExists
         THEN IF mwClose = "ok"
              THEN [log |-> <<"kill_raised", "close_window_ok">>, raised |-> FALSE]
              ELSE [log |-> <<"kill_raised", "close_window_raised">>, raised |-> FALSE]
         ELSE [log |-> <<"kill_raised">>, raised |-> FALSE]

\* ------------------------------------------------------------------ Init
OrchInit ==
    /\ pc = "idle"
    /\ ret = "none"
    /\ app = None
    /\ main_window = None
    /\ first_time_browsing = TRUE
    /\ browse_open = FALSE
    /\ elapsed = 0
    /\ trace = <<>>
    /\ h = H0
    /\ calls = 0
    /\ lastOp = "none"
    /\ closeLog = <<>>
    /\ closeRaised = FALSE

Init ==
    /\ OrchInit
    /\ wd = Unused /\ wc = Unused /\ nv = Unused /\ pu = Unused /\ fs = Unused
    /\ desk = Unused

Session == <<app, main_window, first_time_browsing>>
CloseVars == <<closeLog, closeRaised>>

\* leave process_folder with the given outcome
Finish(r) == pc' = "done" /\ ret' = r

\* --------------------------------------------------------------- actions

\* process_folder, lines 517-529
Validate ==
    /\ pc \in {"idle", "done"}
    /\ calls < MaxCalls
    /\ \E kind \in PathKinds :
         /\ h' = [H0 EXCEPT !.kind = kind, !.entryApp = app,
                            !.entryMain = main_window,
                            !.entryFirst = first_time_browsing,
                            !.afterNavFailure =
                                (/\ pc = "done" /\ lastOp = "process_folder"
                                 /\ ret = "false" /\ h.nav = "false")]
         /\ IF kind = "missing" THEN Finish("false")
            ELSE IF kind = "file" THEN Finish("NotADirectoryError")
            ELSE IF ~ValidationPasses(kind) THEN Finish("false")
            ELSE pc' = NextStep("validate") /\ ret' = "none"
    /\ calls' = calls + 1
    /\ lastOp' = "process_folder"
    /\ trace' = <<>>
    /\ elapsed' = 0
    /\ UNCHANGED <<Session, CloseVars>>
    /\ UNCHANGED Aux
    /\ UNCHANGED browse_open

\* process_folder, lines 531-533
PreClean ==
    /\ pc = "preclean"
    /\ trace' = IF app # None THEN Append(trace, "close_read_info") ELSE trace
    /\ pc' = NextStep("preclean")
    /\ UNCHANGED <<ret, Session, elapsed, h, calls, lastOp, CloseVars>>
    /\ UNCHANGED Aux
    /\ UNCHANGED browse_open

\* process_folder, lines 535-537
EnsureConnected ==
    /\ pc = "connect"
    /\ \E mwExists \in BOOLEAN :
         \* main_window.exists() is asked only when both handles are set
         IF ~NeedsConnect(app, main_window, mwExists)
         THEN /\ pc' = NextStep("connect")
              /\ h' = [h EXCEPT !.mwExists = YesNo(mwExists)]
              /\ UNCHANGED <<ret, app, main_window, trace, browse_open>>
         ELSE \E attach \in AttachOutcomes, again \in CallOutcomes,
                 start \in CallOutcomes, launchAttach \in CallOutcomes,
                 wf \in BOOLEAN :
                LET r == connect_or_start_mseq(app, main_window, calls, attach,
                             again, start, launchAttach, wf)
                IN /\ app' = r.app
                   /\ main_window' = r.main_window
                   /\ trace' = trace \o r.ev
                   /\ h' = [h EXCEPT !.mwExists =
                                         IF app # None /\ main_window # None
                                         THEN YesNo(mwExists) ELSE "na",
                                     !.attach = attach,
                                     !.startOk = (start = "ok"),
                                     !.launchAttachOk = (launchAttach = "ok"),
                                     !.mainWinUp = wf,
                                     !.connectResult = r.result]
                   /\ IF r.result = "returned"
                      THEN pc' = NextStep("connect") /\ ret' = ret
                      ELSE Finish(r.result)
                   \* the application now connected to may or may not
                   \* be one that still shows the dialog
                   /\ \E still \in BOOLEAN : browse_open' = (browse_open /\ still)
    /\ UNCHANGED <<first_time_browsing, elapsed, calls, lastOp, CloseVars>>
    /\ UNCHANGED Aux

\* process_folder, lines 539-543
FocusNewProject ==
    /\ pc = "new_project"
    /\ \E focus \in CallOutcomes, keys \in CallOutcomes :
         IF focus = "raise"
         THEN trace' = Append(trace, "focus") /\ Finish("UIError") /\ h' = h
         ELSE /\ trace' = trace \o <<"focus", "new_project">>
              /\ h' = [h EXCEPT !.keyWhileBrowse = YesNo(browse_open)]
              /\ IF keys = "raise" THEN Finish("UIError")
                 ELSE pc' = NextStep("new_project") /\ ret' = ret
    /\ UNCHANGED <<Session, elapsed, calls, lastOp, CloseVars>>
    /\ UNCHANGED Aux
    /\ UNCHANGED browse_open

\* process_folder, lines 545-549
WaitBrowse ==
    /\ pc = "wait_browse"
    /\ \E appeared \in BOOLEAN :
         LET dialog_found == wait_for_dialog("browse_dialog", appeared)
         IN /\ h' = [h EXCEPT !.browse = YesNo(dialog_found)]
            /\ IF BrowseFatal(dialog_found) THEN Finish("false")
               ELSE pc' = NextStep("wait_browse") /\ ret' = ret
            \* the window the wait found is on screen from now on
            /\ browse_open' = (browse_open \/ appeared)
    /\ trace' = Append(trace, "wait_browse")
    /\ UNCHANGED <<Session, elapsed, calls, lastOp, CloseVars>>
    /\ UNCHANGED Aux

\* process_folder, lines 551-559
GetBrowse ==
    /\ pc = "get_browse"
    /\ \E e1 \in BOOLEAN, e2 \in BOOLEAN, wr \in WindowRaises :
         IF get_browse_dialog(e1, e2, wr) = "None"
         THEN Finish("false") /\ UNCHANGED first_time_browsing
         ELSE /\ pc' = NextStep("get_browse") /\ ret' = ret
              /\ first_time_browsing' = after_first_browse(first_time_browsing)
    /\ trace' = Append(trace, "get_browse")
    /\ UNCHANGED <<app, main_window, elapsed, h, calls, lastOp, CloseVars>>
    /\ UNCHANGED Aux
    /\ UNCHANGED browse_open

\* process_folder, lines 561-564
Navigate ==
    /\ pc = "navigate"
    /\ \E o \in NavOutcomes :
         LET r == navigate_to_folder(o)
         IN /\ h' = [h EXCEPT !.nav = r]
            /\ IF r = "raise" THEN Finish("UIError") /\ UNCHANGED browse_open
               ELSE IF NavigationFatal(r)
               THEN Finish("false")
                    /\ browse_open' = after_failed_navigation(browse_open)
               ELSE pc' = NextStep("navigate") /\ ret' = ret
                    /\ UNCHANGED browse_open
    /\ trace' = Append(trace, "navigate")
    /\ UNCHANGED <<Session, elapsed, calls, lastOp, CloseVars>>
    /\ UNCHANGED Aux

\* process_folder, lines 566-567
ClickBrowseOK ==
    /\ pc = "click_ok"
    /\ trace' = Append(trace, "click_browse_ok")
    /\ pc' = NextStep("click_ok")
    \* the dialog goes away when the click or the Enter key reaches it
    /\ \E delivered \in BOOLEAN : browse_open' = (browse_open /\ ~delivered)
    /\ UNCHANGED <<ret, Session, elapsed, h, calls, lastOp, CloseVars>>
    /\ UNCHANGED Aux

\* leave an optional-dialog step
Proceed(step, dialog_found) ==
    LET n == AfterOptionalWait(dialog_found, NextStep(step))
    IN IF n = "return_false" THEN Finish("false") ELSE pc' = n /\ ret' = ret

\* process_folder, lines 569-573
Preferences ==
    /\ pc = "preferences"
    /\ \E appeared \in BOOLEAN, e1 \in BOOLEAN, e2 \in BOOLEAN, wr \in WindowRaises :
         LET dialog_found == wait_for_dialog("preferences", appeared)
             pref_dialog == get_dialog_by_titles(e1, e2, wr)
         IN /\ h' = [h EXCEPT !.pref = YesNo(dialog_found \/ pref_dialog # "None")]
            /\ trace' = IF pref_dialog # "None"
                        THEN trace \o <<"wait_preferences", "click_preferences">>
                        ELSE Append(trace, "wait_preferences")
            /\ Proceed("preferences", dialog_found)
    /\ UNCHANGED <<Session, elapsed, calls, lastOp, CloseVars>>
    /\ UNCHANGED Aux
    /\ UNCHANGED browse_open

\* process_folder, lines 575-581: the specification object is always truthy
CopyFiles ==
    /\ pc = "copy_files"
    /\ \E appeared \in BOOLEAN :
         LET dialog_found == wait_for_dialog("copy_files", appeared)
         IN /\ h' = [h EXCEPT !.copy = YesNo(dialog_found)]
            /\ Proceed("copy_files", dialog_found)
    /\ trace' = trace \o <<"wait_copy_files", "select_all_files", "click_copy_open">>
    /\ UNCHANGED <<Session, elapsed, calls, lastOp, CloseVars>>
    /\ UNCHANGED Aux
    /\ UNCHANGED browse_open

\* process_folder, lines 583-587
ErrorDialog ==
    /\ pc = "error_window"
    /\ \E appeared \in BOOLEAN, e1 \in BOOLEAN, e2 \in BOOLEAN, wr \in WindowRaises :
         LET dialog_found == wait_for_dialog("error_window", appeared)
             error_dialog == get_dialog_by_titles(e1, e2, wr)
         IN /\ h' = [h EXCEPT !.err = YesNo(dialog_found \/ error_dialog # "None"),
                              !.errWait = YesNo(dialog_found)]
            /\ trace' = IF error_dialog # "None"
                        THEN trace \o <<"wait_error", "click_error_ok">>
                        ELSE Append(trace, "wait_error")
            /\ Proceed("error_window", dialog_found)
    /\ UNCHANGED <<Session, elapsed, calls, lastOp, CloseVars>>
    /\ UNCHANGED Aux
    /\ UNCHANGED browse_open

\* process_folder, lines 589-593: the specification object is always truthy
CallBases ==
    /\ pc = "call_bases"
    /\ \E appeared \in BOOLEAN :
         LET dialog_found == wait_for_dialog("call_bases", appeared)
         IN /\ h' = [h EXCEPT !.callb = YesNo(dialog_found)]
            /\ Proceed("call_bases", dialog_found)
    /\ trace' = trace \o <<"wait_call_bases", "click_call_bases_yes">>
    /\ UNCHANGED <<Session, elapsed, calls, lastOp, CloseVars>>
    /\ UNCHANGED Aux
    /\ UNCHANGED browse_open

\* ProcessMonitor.wait_for_completion, lines 386-407: one iteration
Poll ==
    /\ pc = "wait_for_completion"
    /\ elapsed < MaxWaitTicks
    /\ \E low1 \in BOOLEAN, low2 \in BOOLEAN, ri \in ReadInfoOutcomes,
          txt_count \in 0..MaxTxt :
         IF poll_once(low1, low2, ri, txt_count).signal # "none"
         THEN /\ h' = [h EXCEPT !.completion = "yes"]
              /\ pc' = NextStep("wait_for_completion")
              /\ UNCHANGED elapsed
         ELSE /\ elapsed' = elapsed + 1
              /\ UNCHANGED <<h, pc>>
    /\ trace' = IF elapsed = 0 THEN Append(trace, "wait_for_completion") ELSE trace
    /\ UNCHANGED <<ret, Session, calls, lastOp, CloseVars>>
    /\ UNCHANGED Aux
    /\ UNCHANGED browse_open

\* ProcessMonitor.wait_for_completion, lines 386 and 409: the wait ran out
CompletionTimeout ==
    /\ pc = "wait_for_completion"
    /\ elapsed >= MaxWaitTicks
    /\ h' = [h EXCEPT !.completion = "no"]
    /\ pc' = NextStep("wait_for_completion")
    /\ trace' = IF elapsed = 0 THEN Append(trace, "wait_for_completion") ELSE trace
    /\ UNCHANGED <<ret, Session, elapsed, calls, lastOp, CloseVars>>
    /\ UNCHANGED Aux
    /\ UNCHANGED browse_open

\* process_folder, lines 598-607
PostCleanReturn ==
    /\ pc = "postclean"
    /\ LET completion_success == h.completion = "yes"
       IN /\ trace' = IF CleanupBeforeReturn(completion_success)
                      THEN Append(trace, "close_read_info") ELSE trace
          /\ Finish(ProcessResult(completion_success))
    /\ UNCHANGED <<Session, elapsed, h, calls, lastOp, CloseVars>>
    /\ UNCHANGED Aux
    /\ UNCHANGED browse_open

\* MseqAutomation.close, lines 609-622
Close ==
    /\ pc \in {"idle", "done"}
    /\ calls < MaxCalls
    /\ \E kill \in CallOutcomes, mwExists \in BOOLEAN, mwClose \in CallOutcomes :
         LET r == close(app, main_window, kill, mwExists, mwClose)
         IN /\ closeLog' = r.log /\ closeRaised' = r.raised
            \* a killed or closed application takes its dialogs with it
            /\ browse_open' =
                  (/\ browse_open
                   /\ \A j \in 1..Len(r.log) :
                         r.log[j] \notin {"kill_ok", "close_window_ok"})
    /\ pc' = "idle"
    /\ calls' = calls + 1
    /\ lastOp' = "close"
    /\ UNCHANGED <<ret, Session, elapsed, trace, h>>
    /\ UNCHANGED Aux

Next ==
    \/ Validate
    \/ PreClean
    \/ EnsureConnected
    \/ FocusNewProject
    \/ WaitBrowse
    \/ GetBrowse
    \/ Navigate
    \/ ClickBrowseOK
    \/ Preferences
    \/ CopyFiles
    \/ ErrorDialog
    \/ CallBases
    \/ Poll
    \/ CompletionTimeout
    \/ PostCleanReturn
    \/ Close

Spec == Init /\ [][Next]_vars

\* ---------------------------------------------------------------- claims

Range(s) == {s[i] : i \in 1..Len(s)}

\* C1: process_folder on a missing path, or on a folder without a trace
\* file, returns false, interacts with nothing external and leaves app,
\* main_window and first_time_browsing as they were on entry.
C1_ValidationFailFast ==
    (pc = "done" /\ h.kind \in {"missing", "no_ab1"}) =>
        /\ ret = "false"
        /\ trace = <<>>
        /\ app = h.entryApp
        /\ main_window = h.entryMain
        /\ first_time_browsing = h.entryFirst
C1_Witness ==
    /\ pc = "done" /\ h.kind = "no_ab1" /\ ret = "false"
    /\ h.entryApp # None /\ h.entryMain # None /\ ~h.entryFirst

LaterSteps == {"click_browse_ok", "wait_preferences", "click_preferences",
               "wait_copy_files", "select_all_files", "click_copy_open",
               "wait_error", "click_error_ok", "wait_call_bases",
               "click_call_bases_yes", "wait_for_completion"}
C3_FatalBrowseAndNavigation ==
    (pc = "done" /\ (h.browse = "no" \/ h.nav = "false")) =>
        /\ ret = "false"
        /\ Range(trace) \cap LaterSteps = {}
        /\ h.completion = "na"
        /\ (h.browse = "no" => "navigate" \notin Range(trace))
C3_Witness ==
    pc = "done" /\ h.browse = "yes" /\ h.nav = "false" /\ ret = "false"
    /\ "navigate" \in Range(trace)

\* C4: when none of the preferences, copy-files, error and call-bases
\* dialogs appears, process_folder still reaches completion detection and
\* returns what wait_for_completion returned.
NotSeen(x) == x \in {"na", "no"}
C5Order == <<"new_project", "wait_browse", "navigate", "click_browse_ok",
             "wait_preferences", "wait_copy_files", "wait_error",
             "wait_call_bases", "wait_for_completion", "close_read_info">>
Rank(e) == CHOOSE i \in 1..Len(C5Order) : C5Order[i] = e
Listed == SelectSeq(trace, LAMBDA e : e \in Range(C5Order))
StrictlyOrdered(s) ==
    \A i \in 1..Len(s) : \A j \in 1..Len(s) : i < j => Rank(s[i]) < Rank(s[j])

\* C5 as stated: within one call the listed steps happen in the listed
\* order, each at most once (read-info cleanup last).
C5_Original == StrictlyOrdered(Listed)

\* C5 (amended): the listed steps happen in the listed order, each at most
\* once, apart from one extra read-info cleanup that runs first when the
\* session already holds an app handle on entry.
AfterEntryCleanup ==
    IF h.entryApp # None /\ Len(Listed) > 0 /\ Listed[1] = "close_read_info"
    THEN Tail(Listed) ELSE Listed
C5_FixedStepOrder == StrictlyOrdered(AfterEntryCleanup)
C5_Witness ==
    /\ pc = "done" /\ ret = "true" /\ h.entryApp # None
    /\ Len(Listed) = Len(C5Order) + 1

\* C6: no exception other than the RuntimeError of the missing main window
\* leaves process_folder, whatever the external UI does.
C6_OnlyRuntimeErrorEscapes ==
    pc = "done" => ret \notin {"AttributeError", "UIError"}

\* C7: with no running instance to attach to, connect_or_start_mseq
\* launches one, attaches to it and, the main window existing, returns the
\* handles.
C7_LaunchReturnsHandles ==
    (/\ h.attach = "notfound" /\ h.startOk /\ h.launchAttachOk
     /\ h.mainWinUp) =>
        h.connectResult = "returned"

\* C8: once completion detection was reached and process_folder has
\* returned, the read-info cleanup is the last thing it did, after
\* wait_for_completion, whether completion was detected or not.
C8_CleanupAfterCompletion ==
    (pc = "done" /\ h.completion # "na") =>
        /\ trace[Len(trace)] = "close_read_info"
        /\ \E i \in 1..(Len(trace) - 1) : trace[i] = "wait_for_completion"
C8_Witness ==
    /\ pc = "done" /\ h.completion = "no" /\ ret = "false"
    /\ trace[Len(trace)] = "close_read_info"

\* C9: close() never raises; it kills the process first, closes the main
\* window only after the kill raised and a main window exists, swallows a
\* failure of that fallback, and does nothing without an app handle.
C9_CloseNeverRaises ==
    lastOp = "close" =>
        /\ ~closeRaised
        /\ (app = None <=> closeLog = <<>>)
        /\ (app # None => closeLog[1] \in {"kill_ok", "kill_raised"})
        /\ (Len(closeLog) > 1 =>
               /\ closeLog[1] = "kill_raised"
               /\ main_window # None
               /\ Len(closeLog) = 2
               /\ closeLog[2] \in {"close_window_ok", "close_window_raised"})
C9_Witness ==
    lastOp = "close" /\ closeLog = <<"kill_raised", "close_window_raised">>
    /\ ~closeRaised

\* C10: after close() returns the orchestrator holds neither the app handle
\* nor the main-window handle.
C10_CloseTearsDown ==
    lastOp = "close" => (app = None /\ main_window = None)

\* =================================================================
\* DialogHandler.wait_for_dialog, poll by poll
\* =================================================================

\* largest configured dialog timeout, in retry intervals
MaxDialogTicks == 3

WaitKinds == DialogKinds \cup {"unknown_kind"}

\* wait_for_dialog, lines 67-95: the value of the call once the polling has
\* ended; timings.TimeoutError is caught at lines 94-95
wait_for_dialog_result_Uncaught(known, matched) ==
    IF ~known THEN "false" ELSE IF matched THEN "true" ELSE "TimeoutError"
wait_for_dialog_result(known, matched) ==
    IF ~known THEN "false" ELSE IF matched THEN "true" ELSE "false"

NotWd == <<OrchVars, wc, nv, pu, fs, desk>>

InitWd ==
    /\ OrchInit
    /\ wc = Unused /\ nv = Unused /\ pu = Unused /\ fs = Unused
    /\ desk = Unused
    /\ wd \in {[pc |-> "start", kind |-> k, timeout |-> t, clock |-> 0,
               polls |-> 0, matched |-> FALSE, ret |-> "none"] :
               k \in WaitKinds, t \in 0..MaxDialogTicks}

\* wait_for_dialog, line 93: no branch for the kind
WdUnknownKind ==
    /\ wd.pc = "start"
    /\ wd.kind \notin DialogKinds
    /\ wd' = [wd EXCEPT !.pc = "done",
                        !.ret = wait_for_dialog_result(FALSE, FALSE)]
    /\ UNCHANGED NotWd

\* one evaluation of the lambda by timings.wait_until (lines 69-92)
WdPoll ==
    /\ \/ wd.pc = "start" /\ wd.kind \in DialogKinds
       \/ wd.pc = "slept"
    /\ \E exists \in BOOLEAN :
         wd' = IF exists
               THEN [wd EXCEPT !.pc = "done", !.polls = @ + 1, !.matched = TRUE,
                               !.ret = wait_for_dialog_result(TRUE, TRUE)]
               ELSE [wd EXCEPT !.pc = "polled", !.polls = @ + 1]
    /\ UNCHANGED NotWd

\* timings.wait_until: time is left, sleep one retry interval (the sleep and
\* the lookup together take one or two intervals)
WdSleep ==
    /\ wd.pc = "polled"
    /\ wd.timeout - wd.clock > 0
    /\ \E d \in 1..2 : wd' = [wd EXCEPT !.pc = "slept", !.clock = @ + d]
    /\ UNCHANGED NotWd

\* timings.wait_until: no time is left, TimeoutError (lines 94-95)
WdTimeout ==
    /\ wd.pc = "polled"
    /\ wd.timeout - wd.clock <= 0
    /\ wd' = [wd EXCEPT !.pc = "done",
                        !.ret = wait_for_dialog_result(TRUE, FALSE)]
    /\ UNCHANGED NotWd

NextWd ==
    \/ WdUnknownKind
    \/ WdPoll
    \/ WdSleep
    \/ WdTimeout

\* the method runs on one thread until it returns
SpecWaitDialog == InitWd /\ [][NextWd]_vars /\ WF_vars(NextWd)

WdInv ==
    /\ wd.ret # "TimeoutError"
    /\ wd.matched => (wd.pc = "done" /\ wd.ret = "true")
    /\ (wd.pc = "done" /\ wd.kind \in DialogKinds /\ ~wd.matched) =>
           (wd.ret = "false" /\ wd.clock >= wd.timeout)
    /\ (wd.pc = "done" /\ wd.kind \notin DialogKinds) =>
           (wd.ret = "false" /\ wd.polls = 0)
    /\ wd.polls <= wd.timeout + 1

\* C11: wait_for_dialog always returns and never raises on timeout: true at
\* the first poll that finds the window (no poll follows it), false once
\* the timeout has elapsed without a match, false without polling for an
\* unrecognised kind.
C11_WaitForDialogTerminates == []WdInv /\ <>(wd.pc = "done")
C11_Witness ==
    /\ wd.pc = "done" /\ wd.kind = "error_window" /\ wd.ret = "false"
    /\ wd.polls > 1 /\ wd.clock >= wd.timeout

\* =================================================================
\* Text: a Python str is a sequence of one-character strings
\* =================================================================

UpperChars == <<"A", "B", "C", "D", "E", "F", "G", "H", "I", "J", "K", "L", "M",
                "N", "O", "P", "Q", "R", "S", "T", "U", "V", "W", "X", "Y", "Z">>
LowerChars == <<"a", "b", "c", "d", "e", "f", "g", "h", "i", "j", "k", "l", "m",
                "n", "o", "p", "q", "r", "s", "t", "u", "v", "w", "x", "y", "z">>
Digits == {"0", "1", "2", "3", "4", "5", "6", "7", "8", "9"}

\* str.lower() / str.upper() on one ASCII character
LowerChar(c) ==
    IF \E i \in 1..26 : UpperChars[i] = c
    THEN LowerChars[CHOOSE i \in 1..26 : UpperChars[i] = c] ELSE c
UpperChar(c) ==
    IF \E i \in 1..26 : LowerChars[i] = c
    THEN UpperChars[CHOOSE i \in 1..26 : LowerChars[i] = c] ELSE c
LowerStr(s) == [i \in 1..Len(s) |-> LowerChar(s[i])]
UpperStr(s) == [i \in 1..Len(s) |-> UpperChar(s[i])]

\* does t occur in s at position i (1-based)
OccursAt(s, t, i) ==
    i >= 1 /\ i + Len(t) - 1 <= Len(s) /\ SubSeq(s, i, i + Len(t) - 1) = t
\* Python's "t in s"
Contains(s, t) == \E i \in 1..(Len(s) + 1) : OccursAt(s, t, i)

\* str.split(sep) for a one-character separator
RECURSIVE SplitFrom(_, _, _, _)
SplitFrom(s, sep, i, cur) ==
    IF i > Len(s) THEN <<cur>>
    ELSE IF s[i] = sep THEN <<cur>> \o SplitFrom(s, sep, i + 1, <<>>)
    ELSE SplitFrom(s, sep, i + 1, Append(cur, s[i]))
Split(s, sep) == SplitFrom(s, sep, 1, <<>>)

\* sep.join(parts)
RECURSIVE Join(_, _)
Join(parts, sep) ==
    IF Len(parts) = 0 THEN <<>>
    ELSE IF Len(parts) = 1 THEN parts[1]
    ELSE parts[1] \o <<sep>> \o Join(Tail(parts), sep)

\* parts[a:] and parts[:b] of Python, 0-based bounds
SliceFrom(parts, a) == SubSeq(parts, a + 1, Len(parts))
SliceTo(parts, b) == SubSeq(parts, 1, IF b < Len(parts) THEN b ELSE Len(parts))

\* =================================================================
\* FileNavigator.navigate_to_folder
\* =================================================================

\* most folder segments below the drive in a target path
MaxSegs == 2
\* most children the tree shows under one node
MaxChildren == 2

Backslash == "\\"

\* navigate_to_folder, lines 247-255: drive token and folder segments
parse_path(path) ==
    LET parts == Split(path, Backslash)
    IN IF ":" \in {path[i] : i \in 1..Len(path)}
       THEN [drive |-> parts[1],
             folders |-> IF Len(parts) > 1 THEN SliceFrom(parts, 1) ELSE <<>>]
       ELSE [drive |-> <<Backslash>> \o Join(SliceTo(parts, 3), Backslash),
             folders |-> IF Len(parts) > 3 THEN SliceFrom(parts, 3) ELSE <<>>]

\* navigate_to_folder, lines 342-353: index of the child chosen for a
\* folder segment, 0 when there is none (exact label first, then
\* case-insensitive containment)
find_child(children, folder) ==
    IF \E i \in 1..Len(children) : children[i] = folder
    THEN CHOOSE i \in 1..Len(children) :
            /\ children[i] = folder
            /\ \A j \in 1..(i - 1) : children[j] # folder
    ELSE IF \E i \in 1..Len(children) :
               Contains(LowerStr(children[i]), LowerStr(folder))
    THEN CHOOSE i \in 1..Len(children) :
            /\ Contains(LowerStr(children[i]), LowerStr(folder))
            /\ \A j \in 1..(i - 1) :
                  ~Contains(LowerStr(children[j]), LowerStr(folder))
    ELSE 0

\* navigate_to_folder, lines 298-302: the first letter followed by a colon
\* in the label, None (the empty text here) when the label has none
IsAsciiLetter(c) == \E i \in 1..26 : UpperChars[i] = c \/ LowerChars[i] = c
drive_letter(drive_text) ==
    LET at == {i \in 1..(Len(drive_text) - 1) :
                  IsAsciiLetter(drive_text[i]) /\ drive_text[i + 1] = ":"}
    IN IF at = {} THEN <<>>
       ELSE LET i == CHOOSE i \in at : \A j \in at : i <= j
            IN <<drive_text[i], ":">>

\* navigate_to_folder, lines 305-307: the three ways a child of This PC
\* matches the drive token
ExactMatch(drive_text, drive) == drive_text = drive
ContainsMatch(drive_text, drive) == Contains(drive_text, drive)
LetterMatch(drive_text, drive) ==
    /\ drive_letter(drive_text) # <<>>
    /\ UpperStr(drive_letter(drive_text)) = UpperStr(drive)
drive_match(drive_text, drive) ==
    \/ ExactMatch(drive_text, drive)
    \/ ContainsMatch(drive_text, drive)
    \/ LetterMatch(drive_text, drive)

\* first index of children that satisfies Test, 0 when there is none
FirstIndex(children, Test(_)) ==
    IF \E i \in 1..Len(children) : Test(children[i])
    THEN CHOOSE i \in 1..Len(children) :
            Test(children[i]) /\ \A j \in 1..(i - 1) : ~Test(children[j])
    ELSE 0

\* navigate_to_folder, lines 292-318: index of the child taken as the
\* drive node, 0 when there is none; mapped_name is
\* network_drives.get(drive, None), with None as the empty text
find_drive(children, drive, mapped_name) ==
    LET direct == FirstIndex(children, LAMBDA t : drive_match(t, drive))
    IN IF direct # 0 THEN direct
       ELSE IF mapped_name # <<>>
       THEN FirstIndex(children, LAMBDA t : Contains(t, mapped_name))
       ELSE 0

\* navigate_to_folder, lines 355-357: an unresolved segment ends the call
after_lookup_BestEffort(found) == IF found THEN "click" ELSE "skip"
after_lookup(found) == IF found THEN "click" ELSE "return_false"

\* names used for the inputs
SegNames == {<<>>, <<"a">>, <<"a", "b">>}
ChildLabels == {<<"a">>, <<"x", "A", "B">>, <<"s", "h">>}
ServerName == <<"s", "r", "v">>
ShareName == <<"s", "h">>
LocalDrive == <<"C", ":">>
\* labels under This PC: the bare drive, a label that contains the drive,
\* a label with the drive letter in the other case, another drive, and a
\* mapped share
DriveLabels == {<<"C", ":">>, <<"D", "(", "C", ":", ")">>, <<"(", "c", ":", ")">>,
                <<"D", ":">>, <<"A", "B", "I">>}
\* network_drives.get(drive, None) for the path's drive token
MappedNames == {<<>>, <<"A", "B", "I">>}
SeqsUpTo(S, n) == UNION {[1..k -> S] : k \in 0..n}

\* the flat path string of a local or UNC location
RECURSIVE Segments(_)
Segments(segs) ==
    IF Len(segs) = 0 THEN <<>>
    ELSE <<Backslash>> \o segs[1] \o Segments(Tail(segs))
UncShare == <<Backslash, Backslash>> \o ServerName \o <<Backslash>> \o ShareName
BuildPath(kind, segs) ==
    (IF kind = "local" THEN LocalDrive ELSE UncShare) \o Segments(segs)

\* a child that matches the folder segment: same label, or a label that
\* contains it when letter case is ignored
Matches(label, folder) ==
    label = folder \/ Contains(LowerStr(label), LowerStr(folder))
Resolvable(children, folder) ==
    \E i \in 1..Len(children) : Matches(children[i], folder)

NotNv == <<OrchVars, wd, wc, pu, fs, desk>>

\* the locals of the drive lookup (lines 292-318): the children of This PC
\* and the index of the one taken; they are out of use once the walk down
\* the folders has begun
NoScan == [children |-> <<>>, item |-> 0, made |-> FALSE]

InitNv ==
    /\ OrchInit
    /\ wd = Unused /\ wc = Unused /\ pu = Unused /\ fs = Unused
    /\ desk = Unused
    /\ nv \in {[pc |-> "start", kind |-> k, segs |-> sg, path |-> BuildPath(k, sg),
               mapped_name |-> mn, scan |-> NoScan,
               drive |-> <<>>, folders |-> <<>>, idx |-> 0, seen |-> <<>>,
               last |-> <<>>, log |-> <<>>, ret |-> "none"] :
               k \in {"local", "unc"}, sg \in SeqsUpTo(SegNames, MaxSegs),
               mn \in MappedNames}

NvReturn(r) == [nv EXCEPT !.pc = "done", !.ret = r]

\* navigate_to_folder, lines 239-255
NvStart ==
    /\ nv.pc = "start"
    /\ \E focus \in CallOutcomes, tree \in BOOLEAN :
         nv' = IF focus = "raise" THEN NvReturn("raise")
               ELSE IF ~tree THEN NvReturn("false")
               ELSE [nv EXCEPT !.pc = "desktop",
                               !.drive = parse_path(nv.path).drive,
                               !.folders = parse_path(nv.path).folders]
    /\ UNCHANGED NotNv

\* navigate_to_folder, lines 257-272
NvDesktop ==
    /\ nv.pc = "desktop"
    /\ \E found \in BOOLEAN, act \in CallOutcomes :
         nv' = IF ~found THEN NvReturn("false")
               ELSE IF act = "raise" THEN NvReturn("raise")
               ELSE [nv EXCEPT !.pc = "this_pc"]
    /\ UNCHANGED NotNv

\* navigate_to_folder, lines 274-289
NvThisPC ==
    /\ nv.pc = "this_pc"
    /\ \E found \in BOOLEAN, act \in CallOutcomes :
         nv' = IF ~found THEN NvReturn("false")
               ELSE IF act = "raise" THEN NvReturn("raise")
               ELSE [nv EXCEPT !.pc = "drive"]
    /\ UNCHANGED NotNv

\* navigate_to_folder, lines 291-333
NvDrive ==
    /\ nv.pc = "drive"
    /\ \E children \in SeqsUpTo(DriveLabels, MaxChildren), act \in CallOutcomes :
         LET drive_item == find_drive(children, nv.drive, nv.mapped_name)
             looked == [nv EXCEPT !.scan = [children |-> children,
                                             item |-> drive_item,
                                             made |-> TRUE]]
         IN nv' = IF drive_item = 0
                  THEN [looked EXCEPT !.pc = "done", !.ret = "false"]
                  ELSE IF act = "raise"
                  THEN [looked EXCEPT !.pc = "done", !.ret = "raise"]
                  ELSE IF Len(nv.folders) = 0
                  THEN [looked EXCEPT !.pc = "done", !.ret = "true",
                                      !.log = Append(@, <<"click", 0>>)]
                  ELSE [looked EXCEPT !.pc = "segments", !.idx = 1,
                                      !.log = Append(@, <<"click", 0>>)]
    /\ UNCHANGED NotNv

\* navigate_to_folder, lines 334-362: one pass of the loop over folders
NvSegment ==
    /\ nv.pc = "segments"
    /\ nv.idx <= Len(nv.folders)
    /\ \E expand \in CallOutcomes, click \in CallOutcomes,
          children \in SeqsUpTo(ChildLabels, MaxChildren) :
         LET i == nv.idx
             next_item == find_child(children, nv.folders[i])
             step == after_lookup(next_item # 0)
             looked == nv.log \o <<<<"expand", i>>, <<"children", i>>>>
             \* history: the children shown at this level, and whether one
             \* of them matches the segment
             saw == Append(nv.seen, Resolvable(children, nv.folders[i]))
         IN nv' = IF expand = "raise"
                  THEN [NvReturn("raise") EXCEPT !.log = Append(@, <<"expand", i>>),
                                                 !.scan = NoScan]
                  ELSE IF step = "return_false"
                  THEN [NvReturn("false") EXCEPT !.log = looked, !.seen = saw,
                                                 !.last = children,
                                                 !.scan = NoScan]
                  ELSE IF step = "skip"
                  THEN [nv EXCEPT !.idx = i + 1, !.log = looked, !.seen = saw,
                                  !.last = children, !.scan = NoScan]
                  ELSE IF click = "raise"
                  THEN [NvReturn("raise") EXCEPT
                           !.log = Append(looked, <<"click", i>>),
                           !.seen = saw, !.last = children, !.scan = NoScan]
                  ELSE [nv EXCEPT !.idx = i + 1,
                                  !.log = Append(looked, <<"click", i>>),
                                  !.seen = saw, !.last = children,
                                  !.scan = NoScan]
    /\ UNCHANGED NotNv

\* navigate_to_folder, lines 364-366
NvFinish ==
    /\ nv.pc = "segments"
    /\ nv.idx > Len(nv.folders)
    /\ \E click \in CallOutcomes :
         nv' = IF click = "raise" THEN NvReturn("raise") ELSE NvReturn("true")
    /\ UNCHANGED NotNv

NextNv ==
    \/ NvStart
    \/ NvDesktop
    \/ NvThisPC
    \/ NvDrive
    \/ NvSegment
    \/ NvFinish

SpecNav == InitNv /\ [][NextNv]_vars

EventsFor(i) == {j \in 1..Len(nv.log) : nv.log[j][2] = i}

\* C12: navigation returns false at the first folder segment without a
\* matching child, and expands, looks up or clicks nothing for any later
\* segment.
C12_FailsAtFirstUnresolved ==
    /\ \A i \in 1..(Len(nv.seen) - 1) : nv.seen[i]
    /\ (Len(nv.seen) > 0 /\ ~nv.seen[Len(nv.seen)]) =>
          /\ ~Resolvable(nv.last, nv.folders[Len(nv.seen)])
          /\ nv.pc = "done" /\ nv.ret = "false"
          /\ \A j \in 1..Len(nv.log) : nv.log[j][2] <= Len(nv.seen)
          /\ \A j \in 1..Len(nv.log) :
                nv.log[j][2] = Len(nv.seen) => nv.log[j][1] # "click"
    /\ (nv.pc = "done" /\ nv.ret = "true") =>
          /\ Len(nv.seen) = Len(nv.folders)
          /\ \A i \in 1..Len(nv.seen) : nv.seen[i]
C12_Witness ==
    /\ nv.pc = "done" /\ nv.ret = "false" /\ Len(nv.folders) = 3
    /\ Len(nv.seen) = 2 /\ nv.seen[1] /\ ~nv.seen[2]
    /\ ~Resolvable(nv.last, nv.folders[2])
    /\ EventsFor(3) = {}

\* C13: a local path X:\f1\...\fn parses to the drive token "X:" and the
\* segments f1..fn; a UNC path \\server\share\f1\...\fn parses to the drive
\* token "\\server\share" and the segments f1..fn.
C13_PathParsing ==
    nv.pc \notin {"start", "done"} =>
        /\ nv.folders = nv.segs
        /\ nv.drive = (IF nv.kind = "local" THEN LocalDrive ELSE UncShare)

\* =================================================================
\* ProcessMonitor.wait_for_completion, poll by poll
\* =================================================================

\* ProcessMonitor.interval (0.5 s), in quarter seconds
IntervalQ == 2
\* largest configured max_wait, in quarter seconds
MaxWaitQ == 5

\* wait_for_completion, line 386: the loop condition
keep_waiting_Inclusive(el, max_wait) == el <= max_wait
keep_waiting(el, max_wait) == el < max_wait

\* check_output_files, lines 411-418: the number of entries of the folder
\* whose name ends with one of config.TEXT_FILES.  A listing gives the
\* number of such files that were in the folder before the run began
\* (nothing in the program removes them), the number written since, and
\* the number of other entries
check_output_files_NewOnly(listing) == listing.fresh_txt
check_output_files(listing) == listing.stale_txt + listing.fresh_txt

NotWc == <<OrchVars, wd, nv, pu, fs, desk>>

InitWc ==
    /\ OrchInit
    /\ wd = Unused /\ nv = Unused /\ pu = Unused /\ fs = Unused
    /\ desk = Unused
    /\ wc \in {[pc |-> "loop", max_wait |-> m, elapsed |-> 0, polls |-> 0,
               sleeps |-> 0, quiet |-> TRUE, checks |-> <<>>,
               env |-> [low1 |-> FALSE, low2 |-> FALSE, ri |-> "none", txt |-> 0],
               stale_txt |-> st, ret |-> "none"] :
               m \in -1..MaxWaitQ, st \in 0..MaxTxt}

\* wait_for_completion, lines 386-407: one pass of the loop
WcPoll ==
    /\ wc.pc = "loop"
    /\ keep_waiting(wc.elapsed, wc.max_wait)
    /\ \E low1 \in BOOLEAN, low2 \in BOOLEAN, ri \in ReadInfoOutcomes,
          fresh \in 0..(MaxTxt - wc.stale_txt), other \in 0..1 :
         LET txt_count == check_output_files([stale_txt |-> wc.stale_txt,
                                              fresh_txt |-> fresh,
                                              other |-> other])
             p == poll_once(low1, low2, ri, txt_count)
             e == [low1 |-> low1, low2 |-> low2, ri |-> ri, txt |-> txt_count]
         IN wc' = IF p.signal # "none"
                  THEN [wc EXCEPT !.pc = "done", !.ret = "true", !.polls = @ + 1,
                                  !.quiet = FALSE, !.checks = p.checks, !.env = e]
                  ELSE [wc EXCEPT !.polls = @ + 1, !.sleeps = @ + 1,
                                  !.elapsed = @ + IntervalQ,
                                  !.checks = p.checks, !.env = e]
    /\ UNCHANGED NotWc

\* wait_for_completion, lines 386 and 409: the loop ends, return False
WcTimeout ==
    /\ wc.pc = "loop"
    /\ ~keep_waiting(wc.elapsed, wc.max_wait)
    /\ wc' = [wc EXCEPT !.pc = "done", !.ret = "false"]
    /\ UNCHANGED NotWc

NextWc ==
    \/ WcPoll
    \/ WcTimeout

\* the method runs on one thread until it returns
SpecCompletion == InitWc /\ [][NextWc]_vars /\ WF_vars(NextWc)

\* C14: the poll at which the folder holds at least 5 output text files
\* returns true, and no poll or sleep follows it.
C14_ReturnsAtFileCount ==
    (wc.polls > 0 /\ wc.env.txt >= 5) =>
        /\ wc.pc = "done" /\ wc.ret = "true"
        /\ wc.sleeps = wc.polls - 1
C14_Witness ==
    /\ wc.pc = "done" /\ wc.ret = "true" /\ wc.max_wait = MaxWaitQ
    /\ wc.polls = 2 /\ wc.sleeps = 1 /\ wc.env.txt = 5
    /\ ~wc.env.low1 /\ ~wc.env.low2 /\ wc.env.ri = "none"

\* ceil(max_wait / interval), 0 for max_wait <= 0
CeilPolls(m) == IF m <= 0 THEN 0 ELSE (m + IntervalQ - 1) \div IntervalQ
WcBounded ==
    /\ wc.polls <= CeilPolls(wc.max_wait)
    /\ (wc.pc = "done" /\ wc.quiet) =>
           (wc.ret = "false" /\ wc.polls = CeilPolls(wc.max_wait))
    /\ (wc.pc = "done" /\ wc.max_wait <= 0) =>
           (wc.ret = "false" /\ wc.polls = 0 /\ wc.sleeps = 0)

\* C15: wait_for_completion always returns; without a signal it returns
\* false after ceil(max_wait / 0.5) polls at most, and with max_wait <= 0
\* it returns false without polling.
C15_CompletionTerminates == []WcBounded /\ <>(wc.pc = "done")
C15_Witness ==
    /\ wc.pc = "done" /\ wc.ret = "false" /\ wc.quiet
    /\ wc.max_wait = 3 /\ wc.polls = 2

Pos(s, e) == IF \E i \in 1..Len(s) : s[i] = e
             THEN CHOOSE i \in 1..Len(s) : s[i] = e ELSE 0
\* C16: a poll looks at the signals in priority order: a low-quality
\* notice is dismissed and ends the wait without closing read-info windows
\* or counting files; otherwise open read-info windows are closed and end
\* the wait without counting files; only otherwise are the files counted.
C16_SignalPriority ==
    wc.polls > 0 =>
        LET low == wc.env.low1 \/ wc.env.low2
            c == wc.checks
        IN /\ low => (/\ Pos(c, "click_ok") > 0
                      /\ Pos(c, "close_read_info") = 0
                      /\ Pos(c, "count_files") = 0
                      /\ wc.ret = "true")
           /\ (~low /\ wc.env.ri = "some") =>
                     (/\ Pos(c, "click_ok") = 0
                      /\ Pos(c, "close_read_info") > 0
                      /\ Pos(c, "count_files") = 0
                      /\ wc.ret = "true")
           /\ (~low /\ wc.env.ri # "some") =>
                     (/\ Pos(c, "click_ok") = 0
                      /\ Pos(c, "low_quality") > 0
                      /\ Pos(c, "low_quality") < Pos(c, "close_read_info")
                      /\ Pos(c, "close_read_info") < Pos(c, "count_files"))
C16_Witness ==
    /\ wc.pc = "done" /\ wc.ret = "true" /\ wc.polls > 1
    /\ ~wc.env.low1 /\ ~wc.env.low2 /\ wc.env.ri = "some" /\ wc.env.txt >= 5
    /\ Pos(wc.checks, "count_files") = 0

\* =================================================================
\* RegexPatterns and PathUtilities
\* =================================================================

\* most atoms concatenated into one input text
MaxAtoms == 4

\* the value None
NoMatch == <<"None">>

RECURSIVE Flatten(_)
Flatten(ss) == IF Len(ss) = 0 THEN <<>> ELSE ss[1] \o Flatten(Tail(ss))
Chars(s) == {s[i] : i \in 1..Len(s)}

\* PathUtilities.__init__, lines 20-34: abi_translation_table
TranslateChar(c) ==
    CASE c \in {" ", "\"", "'", "?", ","} -> <<>>
      [] c = "+" -> <<"&">>
      [] c \in {"*", "|", "/", "\\", ":", "<", ">"} -> <<"-">>
      [] OTHER -> <<c>>

\* PathUtilities.adjust_abi_chars: str.translate
adjust_abi_chars(file_name) ==
    Flatten([i \in 1..Len(file_name) |-> TranslateChar(file_name[i])])

\* str.rfind for one character, 1-based, 0 when absent
RFind(s, c) ==
    IF \E i \in 1..Len(s) : s[i] = c
    THEN CHOOSE i \in 1..Len(s) : s[i] = c /\ \A j \in (i + 1)..Len(s) : s[j] # c
    ELSE 0
Max2(a, b) == IF a > b THEN a ELSE b

\* os.path.splitext(p)[0], as normalize_filename uses it at line 43: the cut
\* is at the last '.', provided it lies after the last separator and a
\* character other than '.' stands between them
splitext_stem(p) ==
    LET sepIndex == Max2(RFind(p, "\\"), RFind(p, "/"))
        dotIndex == RFind(p, ".")
    IN IF dotIndex > sepIndex
          /\ \E k \in (sepIndex + 1)..(dotIndex - 1) : p[k] # "."
       THEN SubSeq(p, 1, dotIndex - 1)
       ELSE p

\* str.replace(old, '')
RECURSIVE RemoveAllFrom(_, _, _)
RemoveAllFrom(s, old, i) ==
    IF i > Len(s) THEN <<>>
    ELSE IF OccursAt(s, old, i) THEN RemoveAllFrom(s, old, i + Len(old))
    ELSE <<s[i]>> \o RemoveAllFrom(s, old, i + 1)
RemoveAll(s, old) == RemoveAllFrom(s, old, 1)

TokPremixed == <<"_", "P", "r", "e", "m", "i", "x", "e", "d">>
TokRTI == <<"_", "R", "T", "I">>

\* PathUtilities.neutralize_suffixes, lines 57-62
neutralize_suffixes(file_name) == RemoveAll(RemoveAll(file_name, TokPremixed), TokRTI)

\* index of the first c in s at or after i, 0 when there is none
FindFrom(s, c, i) ==
    IF \E j \in i..Len(s) : s[j] = c
    THEN CHOOSE j \in i..Len(s) : s[j] = c /\ \A k \in i..(j - 1) : s[k] # c
    ELSE 0
\* '.' of a pattern without DOTALL: any character but a newline
NoNewline(s, a, b) == \A k \in a..b : s[k] # "\n"

\* RegexPatterns 'brace_content', line 21, used by
\* PathUtilities.remove_brace_content (lines 64-66): sub('', text) of {.*?}
RECURSIVE SubBraces(_, _)
SubBraces(s, i) ==
    IF i > Len(s) THEN <<>>
    ELSE LET j == FindFrom(s, "}", i + 1)
         IN IF s[i] = "{" /\ j # 0 /\ NoNewline(s, i + 1, j - 1)
            THEN SubBraces(s, j + 1)
            ELSE <<s[i]>> \o SubBraces(s, i + 1)
remove_brace_content(text) == SubBraces(text, 1)

\* PathUtilities.normalize_filename, lines 36-51
normalize_filename_BracesFirst(file_name, remove_extension) ==
    LET adjusted == remove_brace_content(adjust_abi_chars(file_name))
        stem == IF remove_extension /\ "." \in Chars(adjusted)
                THEN splitext_stem(adjusted) ELSE adjusted
    IN neutralize_suffixes(stem)
normalize_filename(file_name, remove_extension) ==
    LET adjusted == adjust_abi_chars(file_name)
        stem == IF remove_extension /\ "." \in Chars(adjusted)
                THEN splitext_stem(adjusted) ELSE adjusted
    IN remove_brace_content(neutralize_suffixes(stem))

\* length of the run of digits of s that starts at i
DigitRun(s, i) ==
    IF i > Len(s) \/ s[i] \notin Digits THEN 0
    ELSE CHOOSE n \in 1..(Len(s) - i + 1) :
            /\ \A k \in i..(i + n - 1) : s[k] \in Digits
            /\ (i + n > Len(s) \/ s[i + n] \notin Digits)

\* One letter outside ASCII is kept, under its code point: U+0130, capital I
\* with dot above.  str.lower() turns it into 'i' followed by the combining
\* dot U+0307; str.upper() leaves it alone
CapitalIDot == "U+0130"
CombiningDot == "U+0307"
str_lower(text) ==
    Flatten([k \in 1..Len(text) |->
                IF text[k] = CapitalIDot THEN <<"i", CombiningDot>>
                ELSE <<LowerChar(text[k])>>])
str_upper(text) == UpperStr(text)

\* the lower case of one character as re.IGNORECASE takes it: one character
\* for one character, so U+0130 is an 'i'
FoldChar(c) == IF c = CapitalIDot THEN "i" ELSE LowerChar(c)
Fold(s) == [k \in 1..Len(s) |-> FoldChar(s[k])]

\* a literal of a pattern at position i, with or without re.IGNORECASE
LiteralAt(s, lit, i, ignorecase) ==
    IF ignorecase THEN OccursAt(Fold(s), Fold(lit), i)
    ELSE OccursAt(s, lit, i)

LitBioi == <<"b", "i", "o", "i", "-">>
LitPcr == <<"{", "p", "c", "r">>

\* RegexPatterns 'inumber', line 19: search of bioi-(\d+), group 1
inumber_at(s, i, ignorecase) ==
    LiteralAt(s, LitBioi, i, ignorecase) /\ DigitRun(s, i + 5) > 0
inumber_search_CaseSensitive(text) ==
    IF \E i \in 1..Len(text) : inumber_at(text, i, FALSE)
    THEN LET i == CHOOSE i \in 1..Len(text) :
                     /\ inumber_at(text, i, FALSE)
                     /\ \A j \in 1..(i - 1) : ~inumber_at(text, j, FALSE)
         IN SubSeq(text, i + 5, i + 4 + DigitRun(text, i + 5))
    ELSE NoMatch
inumber_search(text) ==
    IF \E i \in 1..Len(text) : inumber_at(text, i, TRUE)
    THEN LET i == CHOOSE i \in 1..Len(text) :
                     /\ inumber_at(text, i, TRUE)
                     /\ \A j \in 1..(i - 1) : ~inumber_at(text, j, TRUE)
         IN SubSeq(text, i + 5, i + 4 + DigitRun(text, i + 5))
    ELSE NoMatch

\* PathUtilities.get_inumber_from_name, lines 68-70
get_inumber_from_name(name) == inumber_search(name)

\* RegexPatterns 'pcr_number', line 20: {pcr(\d+).+} matched at i with a
\* first group of d digits: after the digits at least one character other
\* than a newline, then '}'
pcr_fits(s, i, d) ==
    LET e == i + 3 + d
    IN \E j \in (e + 2)..Len(s) : s[j] = "}" /\ NoNewline(s, e + 1, j - 1)
pcr_at(s, i) ==
    /\ LiteralAt(s, LitPcr, i, TRUE)
    /\ \E d \in 1..DigitRun(s, i + 4) : pcr_fits(s, i, d)
\* search: leftmost position; \d+ is greedy, so the longest group that fits
pcr_search(text) ==
    IF \E i \in 1..Len(text) : pcr_at(text, i)
    THEN LET i == CHOOSE i \in 1..Len(text) :
                     pcr_at(text, i) /\ \A j \in 1..(i - 1) : ~pcr_at(text, j)
             d == CHOOSE d \in 1..DigitRun(text, i + 4) :
                     /\ pcr_fits(text, i, d)
                     /\ \A d2 \in (d + 1)..DigitRun(text, i + 4) :
                           ~pcr_fits(text, i, d2)
         IN SubSeq(text, i + 4, i + 3 + d)
    ELSE NoMatch

\* PathUtilities.get_pcr_number, lines 72-74
get_pcr_number(file_name) == pcr_search(file_name)

LitFbPcr == <<"f", "b", "-", "p", "c", "r">>

\* RegexPatterns 'bioi_folder', line 22: bioi-\d+
bioi_folder_at(s, i) == LiteralAt(s, LitBioi, i, TRUE) /\ DigitRun(s, i + 5) > 0
\* RegexPatterns 'bioi_order_folder', line 23: bioi-\d+_.+_\d+ ; the '_'
\* after \d+ is no digit, so \d+ takes the whole run
bioi_order_folder_at(s, i) ==
    /\ bioi_folder_at(s, i)
    /\ LET u == i + 5 + DigitRun(s, i + 5)
       IN /\ u <= Len(s) /\ s[u] = "_"
          /\ \E j \in (u + 2)..(Len(s) - 1) :
                s[j] = "_" /\ s[j + 1] \in Digits /\ NoNewline(s, u + 1, j - 1)
\* RegexPatterns 'plate_folder', line 24: p\d+.+
plate_folder_at(s, i) ==
    /\ LiteralAt(s, <<"p">>, i, TRUE)
    /\ \E d \in 1..DigitRun(s, i + 1) :
          i + d + 1 <= Len(s) /\ s[i + d + 1] # "\n"
\* RegexPatterns 'pcr_folder', line 25: fb-pcr\d+_\d+
pcr_folder_at(s, i) ==
    /\ LiteralAt(s, LitFbPcr, i, TRUE)
    /\ DigitRun(s, i + 6) > 0
    /\ LET u == i + 6 + DigitRun(s, i + 6)
       IN u + 1 <= Len(s) /\ s[u] = "_" /\ s[u + 1] \in Digits

\* PathUtilities.is_bioi_folder .. is_pcr_folder, lines 80-94:
\* RegexPatterns.contains, a search anywhere in the name
is_bioi_folder(folder_name) ==
    \E i \in 1..Len(folder_name) : bioi_folder_at(folder_name, i)
is_order_folder_BioiPattern(folder_name) ==
    \E i \in 1..Len(folder_name) : bioi_folder_at(folder_name, i)
is_order_folder(folder_name) ==
    \E i \in 1..Len(folder_name) : bioi_order_folder_at(folder_name, i)
is_plate_folder(folder_name) ==
    \E i \in 1..Len(folder_name) : plate_folder_at(folder_name, i)
is_pcr_folder(folder_name) ==
    \E i \in 1..Len(folder_name) : pcr_folder_at(folder_name, i)

\* the file names of test_path.py, lines 19-25, and what it expects
Ex1In ==
    <<"{", "0", "1", "A", "}", "S", "a", "m", "p", "l", "e", "1", "_", "K",
      "s", "e", "q", "F", ".", "a", "b", "1">>
Ex1Out ==
    <<"S", "a", "m", "p", "l", "e", "1", "_", "K", "s", "e", "q", "F">>
Ex2In ==
    <<"S", "a", "m", "p", "l", "e", "+", "W", "i", "t", "h", "*", "I", "l",
      "l", "e", "g", "a", "l", ":", "C", "h", "a", "r", "s", ".", "a", "b",
      "1">>
Ex2Out ==
    <<"S", "a", "m", "p", "l", "e", "&", "W", "i", "t", "h", "-", "I", "l",
      "l", "e", "g", "a", "l", "-", "C", "h", "a", "r", "s">>
Ex3In ==
    <<"S", "a", "m", "p", "l", "e", "_", "P", "r", "e", "m", "i", "x", "e",
      "d", "_", "R", "T", "I", ".", "a", "b", "1">>
Ex3Out ==
    <<"S", "a", "m", "p", "l", "e">>
Ex4In ==
    <<"{", "0", "7", "E", "}", "{", "0", "6", "G", "}", "9", "4", "0", ".",
      "9", ".", "H", "4", "4", "6", "_", "9", "4", "0", "R", "{", "P", "C",
      "R", "2", "9", "6", "1", "e", "x", "p", "1", "}", "{", "2", "_", "2",
      "8", "}", ".", "a", "b", "1">>
Ex4Out ==
    <<"9", "4", "0", ".", "9", ".", "H", "4", "4", "6", "_", "9", "4", "0",
      "R">>

\* RegexPatterns 'order_number', line 31: _(\d+)(?:$|_) ; \d+ takes the
\* whole digit run (a shorter run is followed by a digit), and $ is the end
\* of the text or the place before a final newline
order_number_at(s, i) ==
    /\ s[i] = "_" /\ DigitRun(s, i + 1) > 0
    /\ LET u == i + 1 + DigitRun(s, i + 1)
       IN \/ u > Len(s)
          \/ s[u] = "_"
          \/ (u = Len(s) /\ s[u] = "\n")
\* search: the leftmost match
order_number_search(s) ==
    LET at == {i \in 1..Len(s) : order_number_at(s, i)}
    IN IF at = {} THEN NoMatch
       ELSE LET i == CHOOSE i \in at : \A j \in at : i <= j
            IN SubSeq(s, i + 1, i + DigitRun(s, i + 1))
\* PathUtilities.get_order_number, lines 76-78
get_order_number(folder_name) == order_number_search(folder_name)

\* inputs: every concatenation of at most MaxAtoms atoms
TextsOver(atoms) == {Flatten(ss) : ss \in SeqsUpTo(atoms, MaxAtoms)}
NormAtoms == {<<"{">>, <<"}">>, <<".">>, <<"a">>, <<"+">>, TokRTI}
NormInputs == TextsOver(NormAtoms) \cup {Ex1In, Ex2In, Ex3In, Ex4In}
INumAtoms == {LitBioi, <<"B", "i", "o", "I", "-">>,
              <<"B", CapitalIDot, "o", "I", "-">>, <<"1">>, <<"2", "3">>, <<"x">>}
INumInputs == TextsOver(INumAtoms)
PcrAtoms == {LitPcr, <<"{", "P", "C", "R">>, <<"1">>, <<"2">>, <<"x">>, <<"}">>}
PcrInputs == TextsOver(PcrAtoms)

\* the folder names of test_path.py, lines 59-62
Folder1 == <<"B", "i", "o", "I", "-", "1", "2", "3", "4", "5">>
Folder2 == Folder1 \o <<"_", "C", "u", "s", "t", "o", "m", "e", "r", "_", "6", "7",
                        "8", "9", "0">>
Folder3 == <<"P", "1", "2", "3", "4", "5", "_", "T", "e", "s", "t">>
Folder4 == <<"F", "B", "-", "P", "C", "R", "1", "2", "3", "4", "_", "5", "6", "7",
             "8">>
FolderAtoms == {<<"B", "i", "o", "I", "-", "1">>, <<"_", "x">>, <<"_", "2">>,
                <<"P", "3">>, <<"f", "b", "-", "P", "C", "R", "4">>, <<"x">>}
FolderInputs == TextsOver(FolderAtoms) \cup {Folder1, Folder2, Folder3, Folder4}
\* pieces of folder names with several '_<digits>' groups
OrderAtoms == {<<"B", "i", "o", "I", "-", "1">>, <<"_", "x">>, <<"_", "2">>,
               <<"_", "3", "4">>, <<"5">>}
OrderInputs == TextsOver(OrderAtoms) \cup {Folder2}
\* pieces of file names around the suffix tokens
SuffixAtoms == {<<"_", "R">>, <<"T", "I">>, <<"{">>, <<"}">>, TokPremixed}
SuffixInputs == TextsOver(SuffixAtoms) \cup {TokRTI, Ex1In}

NotPu == <<OrchVars, wd, wc, nv, fs, desk>>

PuStart(inputs) ==
    /\ OrchInit
    /\ wd = Unused /\ wc = Unused /\ nv = Unused /\ fs = Unused
    /\ desk = Unused
    /\ pu \in {[pc |-> "call", input |-> t, norm |-> <<>>, normExt |-> <<>>,
               inumber |-> <<>>, inumberLower |-> <<>>, inumberUpper |-> <<>>,
               pcr |-> <<>>, is_bioi |-> FALSE, is_order |-> FALSE,
               is_plate |-> FALSE, is_pcr |-> FALSE,
               order_number |-> <<>>] : t \in inputs}
InitNorm == PuStart(NormInputs)
InitINum == PuStart(INumInputs)
InitPcr == PuStart(PcrInputs)
InitFolders == PuStart(FolderInputs)
InitOrder == PuStart(OrderInputs)
InitSuffix == PuStart(SuffixInputs)

\* the calls of test_path.py on one text
PuCall ==
    /\ pu.pc = "call"
    /\ pu' = [pu EXCEPT
                !.pc = "done",
                !.norm = normalize_filename(pu.input, TRUE),
                !.normExt = normalize_filename(pu.input, FALSE),
                !.inumber = get_inumber_from_name(pu.input),
                !.inumberLower = get_inumber_from_name(str_lower(pu.input)),
                !.inumberUpper = get_inumber_from_name(str_upper(pu.input)),
                !.pcr = get_pcr_number(pu.input),
                !.is_bioi = is_bioi_folder(pu.input),
                !.is_order = is_order_folder(pu.input),
                !.is_plate = is_plate_folder(pu.input),
                !.is_pcr = is_pcr_folder(pu.input),
                !.order_number = get_order_number(pu.input)]
    /\ UNCHANGED NotPu

NextPu == PuCall

SpecNormalize == InitNorm /\ [][NextPu]_vars
SpecINumber == InitINum /\ [][NextPu]_vars
SpecPcr == InitPcr /\ [][NextPu]_vars
SpecFolders == InitFolders /\ [][NextPu]_vars
SpecOrder == InitOrder /\ [][NextPu]_vars
SpecSuffix == InitSuffix /\ [][NextPu]_vars

\* -----------------------------------------------------------------
\* Claims on normalize_filename, get_inumber_from_name, get_pcr_number
\* -----------------------------------------------------------------

HasBraceSpan(s) == \E i, j \in 1..Len(s) : i < j /\ s[i] = "{" /\ s[j] = "}"
Braces == {"{", "}"}

\* C17: for every filename that contains a brace-delimited span, the output
\* of normalize_filename, with either value of remove_extension, contains no
\* '{' and no '}' character.
C17_NoBracesInOutput ==
    (pu.pc = "done" /\ HasBraceSpan(pu.input)) =>
        /\ Braces \cap Chars(pu.norm) = {}
        /\ Braces \cap Chars(pu.normExt) = {}

\* extension stripping as the claim words it: the text from the last '.' on
StripAfterLastDot(s) ==
    IF "." \in Chars(s) THEN SubSeq(s, 1, RFind(s, ".") - 1) ELSE s
\* extension stripping that spares a name whose last '.' has only '.'
\* characters, or nothing, before it
StripExtension(s) ==
    LET d == RFind(s, ".")
    IN IF d > 0 /\ \E k \in 1..(d - 1) : s[k] # "."
       THEN SubSeq(s, 1, d - 1) ELSE s
ExamplesHold ==
    /\ pu.input = Ex1In => pu.norm = Ex1Out
    /\ pu.input = Ex2In => pu.norm = Ex2Out
    /\ pu.input = Ex3In => pu.norm = Ex3Out
    /\ pu.input = Ex4In => pu.norm = Ex4Out

\* C18 as stated: normalize_filename(name) is substitution, then removal of
\* the text after the last '.', then removal of _Premixed and _RTI, then
\* removal of every {...} span; the four example names give the four
\* expected results.
C18_Original ==
    pu.pc = "done" =>
        /\ pu.norm = remove_brace_content(neutralize_suffixes(
                        StripAfterLastDot(adjust_abi_chars(pu.input))))
        /\ ExamplesHold

\* C18, amended: the same composition in the same order, where the extension
\* step removes the last '.' and the text after it only when a character
\* other than '.' stands before that '.'; the four examples hold.
C18_NormalizeComposition ==
    pu.pc = "done" =>
        /\ pu.norm = remove_brace_content(neutralize_suffixes(
                        StripExtension(adjust_abi_chars(pu.input))))
        /\ ExamplesHold
C18_Witness == pu.pc = "done" /\ pu.input = Ex4In /\ pu.norm = Ex4Out

INumTokenAt(t, p) ==
    /\ OccursAt(LowerStr(t), LitBioi, p)
    /\ p + 5 <= Len(t) /\ t[p + 5] \in Digits
\* r is the whole run of digits of t that starts at position a
IsDigitRunAt(t, a, r) ==
    /\ Len(r) >= 1 /\ a + Len(r) - 1 <= Len(t)
    /\ r = SubSeq(t, a, a + Len(r) - 1)
    /\ \A k \in 1..Len(r) : r[k] \in Digits
    /\ (a + Len(r) > Len(t) \/ t[a + Len(r)] \notin Digits)
INumberOf(t, r) ==
    IF \E p \in 1..Len(t) : INumTokenAt(t, p)
    THEN LET p == CHOOSE p \in 1..Len(t) :
                     INumTokenAt(t, p) /\ \A q \in 1..(p - 1) : ~INumTokenAt(t, q)
         IN IsDigitRunAt(t, p + 5, r)
    ELSE r = NoMatch
SameInAllCases ==
    pu.inumber = pu.inumberLower /\ pu.inumber = pu.inumberUpper

\* C19 as stated: for any text, get_inumber_from_name gives the same result
\* on the text, on its lower-cased and on its upper-cased form; that result
\* is the run of digits after the first 'bioi-<digits>' token, and null when
\* there is no such token.
C19_Original ==
    pu.pc = "done" => SameInAllCases /\ INumberOf(pu.input, pu.inumber)

\* C19, amended: for any text without the letter U+0130,
\* get_inumber_from_name gives the same result on the text, on its
\* lower-cased and on its upper-cased form; that result is the run of digits
\* after the first 'bioi-<digits>' token, and null when there is no such token.
C19_INumberCaseInsensitive ==
    (pu.pc = "done" /\ CapitalIDot \notin Chars(pu.input)) =>
        SameInAllCases /\ INumberOf(pu.input, pu.inumber)
C19_Witness ==
    /\ pu.pc = "done" /\ CapitalIDot \notin Chars(pu.input)
    /\ pu.input # LowerStr(pu.input) /\ pu.input # UpperStr(pu.input)
    /\ pu.inumber # NoMatch

\* a token {pcr<digits>...} at position i: the digits, then anything, then '}'
PcrTokenAt(t, i) ==
    /\ OccursAt(LowerStr(t), LitPcr, i)
    /\ i + 4 <= Len(t) /\ t[i + 4] \in Digits
    /\ \E j \in (i + 5)..Len(t) :
          /\ t[j] = "}"
          /\ \E k \in (i + 5)..j : t[k] \notin Digits

\* C20: for every text with a brace token {pcr<digits>...}, in any case,
\* get_pcr_number returns the complete run of digits after 'pcr' in that
\* token; it returns null when the text has no such token.
C20_PcrCompleteDigitRun ==
    pu.pc = "done" =>
        IF \E i \in 1..Len(pu.input) : PcrTokenAt(pu.input, i)
        THEN LET i == CHOOSE i \in 1..Len(pu.input) :
                         /\ PcrTokenAt(pu.input, i)
                         /\ \A q \in 1..(i - 1) : ~PcrTokenAt(pu.input, q)
             IN IsDigitRunAt(pu.input, i + 4, pu.pcr)
        ELSE pu.pcr = NoMatch

\* the shapes of folder name the classification speaks of
AllDigits(s, a, b) == a <= b /\ \A k \in a..b : s[k] \in Digits
IsBareBioI(t) ==
    OccursAt(LowerStr(t), LitBioi, 1) /\ AllDigits(t, 6, Len(t))
IsPlateForm(t) ==
    /\ Len(t) >= 3 /\ LowerChar(t[1]) = "p"
    /\ \E u \in 3..Len(t) : t[u] = "_" /\ AllDigits(t, 2, u - 1)
IsPcrForm(t) ==
    /\ OccursAt(LowerStr(t), LitFbPcr, 1)
    /\ \E u \in 8..(Len(t) - 1) :
          t[u] = "_" /\ AllDigits(t, 7, u - 1) /\ AllDigits(t, u + 1, Len(t))
OnlyPlate == pu.is_plate /\ ~pu.is_bioi /\ ~pu.is_order /\ ~pu.is_pcr
OnlyPcr == pu.is_pcr /\ ~pu.is_bioi /\ ~pu.is_order /\ ~pu.is_plate
OrderWithinBioI ==
    /\ pu.is_order => pu.is_bioi
    /\ IsBareBioI(pu.input) => (pu.is_bioi /\ ~pu.is_order)
FolderExamplesHold ==
    /\ pu.input = Folder1 => (pu.is_bioi /\ ~pu.is_order /\ ~pu.is_pcr /\ ~pu.is_plate)
    /\ pu.input = Folder2 => (pu.is_bioi /\ pu.is_order /\ ~pu.is_pcr /\ ~pu.is_plate)
    /\ pu.input = Folder3 => OnlyPlate
    /\ pu.input = Folder4 => OnlyPcr

\* C21 as stated: is_order_folder implies is_bioi_folder; a bare
\* BioI-<digits> name is a BioI folder and no order folder; every name
\* P<digits>_<text> is classified only as a plate folder and every name
\* FB-PCR<digits>_<digits> only as a PCR folder.
C21_Original ==
    pu.pc = "done" =>
        /\ OrderWithinBioI
        /\ IsPlateForm(pu.input) => OnlyPlate
        /\ IsPcrForm(pu.input) => OnlyPcr

\* C21, amended: as stated, except that a name P<digits>_<text> is always a
\* plate folder, and only a plate folder when <text> has no '-' in it.
C21_FolderClassification ==
    pu.pc = "done" =>
        /\ OrderWithinBioI
        /\ IsPlateForm(pu.input) => pu.is_plate
        /\ (IsPlateForm(pu.input) /\ "-" \notin Chars(pu.input)) => OnlyPlate
        /\ IsPcrForm(pu.input) => OnlyPcr
        /\ FolderExamplesHold
C21_Witness ==
    /\ pu.pc = "done" /\ pu.is_order /\ pu.is_bioi
    /\ pu.input \notin {Folder1, Folder2, Folder3, Folder4}

\* =================================================================
\* RegexPatterns: the catalog and its four queries
\* =================================================================

\* RegexPatterns.__init__, lines 18-32: the keys of self.patterns
Catalog == {"inumber", "pcr_number", "brace_content", "bioi_folder",
            "bioi_order_folder", "plate_folder", "pcr_folder", "ind_blank_file",
            "plate_blank_file", "well_location", "reinject_dilution",
            "preemptive_flag", "order_number"}
\* the names asked for: catalog entries whose pattern is modelled above, and
\* names that are no key of the catalog (keys are case-sensitive)
KnownQueried == {"inumber", "pcr_number", "brace_content", "bioi_folder",
                 "bioi_order_folder", "plate_folder", "pcr_folder"}
UnknownQueried == {"", "INUMBER", "no_such_pattern"}
QueryNames == KnownQueried \cup UnknownQueried
QueryTexts == {<<>>, Folder1, Folder2, Folder3, Folder4, Ex1In,
               <<"{", "p", "c", "r", "1", "2", "x", "}">>}

brace_content_at(s, i) ==
    LET j == FindFrom(s, "}", i + 1)
    IN i <= Len(s) /\ s[i] = "{" /\ j # 0 /\ NoNewline(s, i + 1, j - 1)

\* pattern.search(text) for a catalog entry: is there a match, how many
\* groups the pattern has, and the text of group 1
search(pattern_name, text) ==
    CASE pattern_name = "inumber" ->
           [found |-> inumber_search(text) # NoMatch, groups |-> 1,
            group1 |-> inumber_search(text)]
      [] pattern_name = "pcr_number" ->
           [found |-> pcr_search(text) # NoMatch, groups |-> 1,
            group1 |-> pcr_search(text)]
      [] pattern_name = "brace_content" ->
           [found |-> \E i \in 1..Len(text) : brace_content_at(text, i),
            groups |-> 0, group1 |-> NoMatch]
      [] pattern_name = "bioi_folder" ->
           [found |-> is_bioi_folder(text), groups |-> 0, group1 |-> NoMatch]
      [] pattern_name = "bioi_order_folder" ->
           [found |-> is_order_folder(text), groups |-> 0, group1 |-> NoMatch]
      [] pattern_name = "plate_folder" ->
           [found |-> is_plate_folder(text), groups |-> 0, group1 |-> NoMatch]
      [] OTHER ->
           [found |-> is_pcr_folder(text), groups |-> 0, group1 |-> NoMatch]

\* RegexPatterns.get, lines 34-36: dict.get
get(patterns, pattern_name) ==
    IF pattern_name \in patterns THEN "pattern" ELSE "None"

\* RegexPatterns.match, lines 38-43
match_NoGuard(patterns, pattern_name, text) ==
    IF get(patterns, pattern_name) = "None" THEN "AttributeError"
    ELSE IF search(pattern_name, text).found THEN "match" ELSE "None"
match(patterns, pattern_name, text) ==
    IF get(patterns, pattern_name) = "None" THEN "None"
    ELSE IF search(pattern_name, text).found THEN "match" ELSE "None"

\* RegexPatterns.extract, lines 45-50, with the default group=1
extract(patterns, pattern_name, text) ==
    LET m == match(patterns, pattern_name, text)
    IN IF m = "AttributeError" THEN [ret |-> m, value |-> NoMatch]
       ELSE IF m = "match" /\ 1 <= search(pattern_name, text).groups
       THEN [ret |-> "str", value |-> search(pattern_name, text).group1]
       ELSE [ret |-> "None", value |-> NoMatch]

\* RegexPatterns.contains, lines 52-54
contains(patterns, pattern_name, text) ==
    LET m == match(patterns, pattern_name, text)
    IN IF m = "AttributeError" THEN m
       ELSE IF m # "None" THEN "True" ELSE "False"

InitRx ==
    /\ OrchInit
    /\ wd = Unused /\ wc = Unused /\ nv = Unused /\ fs = Unused
    /\ desk = Unused
    /\ pu = [pc |-> "ready", patterns |-> Catalog, op |-> "none", name |-> "",
             text |-> <<>>, ret |-> "None", value |-> NoMatch]

Asked(op, name, text, result, value) ==
    /\ pu' = [pu EXCEPT !.op = op, !.name = name, !.text = text, !.ret = result,
                        !.value = value]
    /\ UNCHANGED NotPu

RxGet ==
    /\ pu.pc = "ready"
    /\ \E name \in QueryNames :
         Asked("get", name, <<>>, get(pu.patterns, name), NoMatch)
RxMatch ==
    /\ pu.pc = "ready"
    /\ \E name \in QueryNames, text \in QueryTexts :
         Asked("match", name, text, match(pu.patterns, name, text), NoMatch)
RxExtract ==
    /\ pu.pc = "ready"
    /\ \E name \in QueryNames, text \in QueryTexts :
         LET r == extract(pu.patterns, name, text)
         IN Asked("extract", name, text, r.ret, r.value)
RxContains ==
    /\ pu.pc = "ready"
    /\ \E name \in QueryNames, text \in QueryTexts :
         Asked("contains", name, text, contains(pu.patterns, name, text), NoMatch)

NextRx ==
    \/ RxGet
    \/ RxMatch
    \/ RxExtract
    \/ RxContains

SpecCatalog == InitRx /\ [][NextRx]_vars

\* C22: for a pattern name that is not in the catalog, get, match and
\* extract return null and contains returns false, for every text and
\* without raising; no query changes the catalog.
C22_UnknownPatternIsNoMatch ==
    /\ pu.patterns = Catalog
    /\ pu.name \notin Catalog =>
          /\ pu.ret = (IF pu.op = "contains" THEN "False" ELSE "None")
          /\ pu.value = NoMatch
C22_Witness ==
    pu.op = "contains" /\ pu.name = "INUMBER" /\ pu.text = Folder1 /\ pu.ret = "False"

\* =================================================================
\* FileSystem.move_folder, attempt by attempt
\* =================================================================

\* largest max_retries passed to move_folder
MaxRetries == 4
\* the delays passed to move_folder, in seconds
Delays == {0, 1}

\* move_folder, line 139: for attempt in range(max_retries)
more_attempts(attempt, max_retries) == attempt < max_retries
\* move_folder, lines 151-152: wait before the next attempt
sleep_after_failure_Always(attempt, max_retries) == TRUE
sleep_after_failure(attempt, max_retries) == attempt < max_retries - 1

NotFs == <<OrchVars, wd, wc, nv, pu, desk>>

InitMf ==
    /\ OrchInit
    /\ wd = Unused /\ wc = Unused /\ nv = Unused /\ pu = Unused
    /\ desk = Unused
    /\ fs \in {[pc |-> "parent", max_retries |-> m, delay |-> d,
               parent_exists |-> e, attempt |-> 0, slept |-> 0, log |-> <<>>,
               ret |-> "none"] :
               m \in 0..MaxRetries, d \in Delays, e \in BOOLEAN}

MfReturn(r, events) ==
    [fs EXCEPT !.pc = "done", !.ret = r, !.log = @ \o events]

\* move_folder, lines 130-136
MfParent ==
    /\ fs.pc = "parent"
    /\ \E makedirs \in CallOutcomes :
         fs' = IF fs.parent_exists THEN [fs EXCEPT !.pc = "loop"]
               ELSE IF makedirs = "raise"
               THEN MfReturn("false", <<"makedirs_raise">>)
               ELSE [fs EXCEPT !.pc = "loop", !.log = Append(@, "makedirs_ok")]
    /\ UNCHANGED NotFs

\* move_folder, lines 139-152: one pass of the loop
MfAttempt ==
    /\ fs.pc = "loop"
    /\ more_attempts(fs.attempt, fs.max_retries)
    /\ \E move \in CallOutcomes :
         fs' = IF move = "ok"
               THEN MfReturn("true", <<"gc", "move_ok">>)
               ELSE IF sleep_after_failure(fs.attempt, fs.max_retries)
               THEN [fs EXCEPT !.attempt = @ + 1, !.slept = @ + fs.delay,
                               !.log = @ \o <<"gc", "move_raise", "sleep">>]
               ELSE [fs EXCEPT !.attempt = @ + 1,
                               !.log = @ \o <<"gc", "move_raise">>]
    /\ UNCHANGED NotFs

\* move_folder, lines 154-155: the loop ran out
MfGiveUp ==
    /\ fs.pc = "loop"
    /\ ~more_attempts(fs.attempt, fs.max_retries)
    /\ fs' = MfReturn("false", <<>>)
    /\ UNCHANGED NotFs

NextMf ==
    \/ MfParent
    \/ MfAttempt
    \/ MfGiveUp

SpecMoveFolder == InitMf /\ [][NextMf]_vars

CountOf(log, events) == Cardinality({j \in 1..Len(log) : log[j] \in events})
MoveAttempts == CountOf(fs.log, {"move_ok", "move_raise"})

\* C23: move_folder makes at most max_retries move attempts; it returns
\* true at the first attempt that succeeds and makes no further attempt;
\* when every attempt fails it returns false after exactly max_retries
\* attempts; it sleeps between consecutive attempts and not after the last
\* one; when the destination's parent cannot be created it returns false
\* without any move attempt.
C23_BoundedMoveRetries ==
    /\ MoveAttempts <= fs.max_retries
    /\ \A j \in 1..Len(fs.log) :
          /\ fs.log[j] = "move_ok" =>
                j = Len(fs.log) /\ fs.pc = "done" /\ fs.ret = "true"
          /\ fs.log[j] = "sleep" =>
                /\ fs.log[j - 1] = "move_raise"
                /\ ~(fs.pc = "done" /\ j = Len(fs.log))
                /\ j < Len(fs.log) => fs.log[j + 1] = "gc"
          /\ (fs.log[j] = "move_raise" /\ j < Len(fs.log)) =>
                fs.log[j + 1] = "sleep"
    /\ fs.slept = fs.delay * CountOf(fs.log, {"sleep"})
    /\ (fs.pc = "done" /\ fs.ret = "true") =>
          fs.log[Len(fs.log)] = "move_ok"
    /\ (fs.pc = "done" /\ fs.ret = "false") =>
          IF "makedirs_raise" \in Range(fs.log)
          THEN MoveAttempts = 0 /\ ~fs.parent_exists
          ELSE /\ MoveAttempts = fs.max_retries
               /\ CountOf(fs.log, {"sleep"}) =
                     (IF fs.max_retries = 0 THEN 0 ELSE fs.max_retries - 1)
C23_Witness ==
    /\ fs.pc = "done" /\ fs.ret = "false" /\ fs.max_retries = 3
    /\ MoveAttempts = 3 /\ CountOf(fs.log, {"sleep"}) = 2
    /\ "makedirs_ok" \in Range(fs.log)

\* =================================================================
\* FileSystem: the directory-listing cache
\* =================================================================

\* number of FileSystem calls and outside changes in one run
MaxOps == 4

\* two directories; a listing holds any of: a trace file, the same file with
\* a brace tag, a zip archive, and the other directory moved inside
Dirs == {"A", "B"}
TraceFile == "f.ab1"
BracedFile == "{1}f.ab1"
ZipFile == "z.zip"
Other(p) == CHOOSE q \in Dirs : q # p

\* os.path.exists(path) and os.listdir(path) on the directories
Exists(disk, p) == disk[p].exists
Listing(disk, p) == disk[p].entries

\* get_directory_contents, lines 36-50: the cache after the call and the
\* value returned
get_directory_contents_AlwaysReload(cache, disk, path, refresh, listdir) ==
    IF TRUE
    THEN IF ~Exists(disk, path)
         THEN [cache |-> [cache EXCEPT ![path] = [cached |-> TRUE, contents |-> {}]],
               ret |-> {}]
         ELSE IF listdir = "raise"
         THEN [cache |-> [cache EXCEPT ![path] = [cached |-> TRUE, contents |-> {}]],
               ret |-> {}]
         ELSE [cache |-> [cache EXCEPT ![path] =
                             [cached |-> TRUE, contents |-> Listing(disk, path)]],
               ret |-> Listing(disk, path)]
    ELSE [cache |-> cache, ret |-> cache[path].contents]
get_directory_contents(cache, disk, path, refresh, listdir) ==
    IF ~cache[path].cached \/ refresh
    THEN IF ~Exists(disk, path)
         THEN [cache |-> [cache EXCEPT ![path] = [cached |-> TRUE, contents |-> {}]],
               ret |-> {}]
         ELSE IF listdir = "raise"
         THEN [cache |-> [cache EXCEPT ![path] = [cached |-> TRUE, contents |-> {}]],
               ret |-> {}]
         ELSE [cache |-> [cache EXCEPT ![path] =
                             [cached |-> TRUE, contents |-> Listing(disk, path)]],
               ret |-> Listing(disk, path)]
    ELSE [cache |-> cache, ret |-> cache[path].contents]

\* the directories after shutil.move(source file, destination), with the
\* parent of the destination created when missing (lines 103-109)
MovedFile(disk, item, p, q) ==
    [disk EXCEPT ![p].entries = @ \ {item},
                 ![q] = [exists |-> TRUE,
                         entries |-> (IF disk[q].exists THEN disk[q].entries ELSE {})
                                        \cup {item}]]
\* the directories after shutil.move(source folder, destination): into the
\* destination when that is a directory, else renamed to it (line 145)
MovedFolder(disk, p, q) ==
    IF disk[q].exists
    THEN [disk EXCEPT ![p] = [exists |-> FALSE, entries |-> {}],
                      ![q].entries = @ \cup {p}]
    ELSE [disk EXCEPT ![p] = [exists |-> FALSE, entries |-> {}],
                      ![q] = [exists |-> TRUE, entries |-> disk[p].entries \ {q}]]
\* the directories after os.rename to the name without braces (line 170)
Renamed(disk, p) ==
    [disk EXCEPT ![p].entries = (@ \ {BracedFile}) \cup {TraceFile}]

EmptyCache == [p \in Dirs |-> [cached |-> FALSE, contents |-> {}]]
NoCall == [op |-> "none", path |-> "A", refresh |-> FALSE, ret |-> {},
           known |-> FALSE, expected |-> {}, read |-> {}]

InitCache ==
    /\ OrchInit
    /\ wd = Unused /\ wc = Unused /\ nv = Unused /\ pu = Unused
    /\ desk = Unused
    /\ fs \in {[pc |-> "ready", ops |-> 0, directory_cache |-> EmptyCache,
               disk |-> [p \in Dirs |->
                           IF p = "A"
                           THEN [exists |-> TRUE, entries |-> {TraceFile, BracedFile}]
                           ELSE [exists |-> e, entries |-> {}]],
               loaded |-> [p \in Dirs |-> [known |-> FALSE, listing |-> {}]],
               last |-> NoCall] : e \in BOOLEAN}

\* history of one call of get_directory_contents: what the directory holds
\* when the call is made and the listing of the last load before it
Observed(op, path, refresh, listdir, disk, r) ==
    [op |-> op, path |-> path, refresh |-> refresh, ret |-> r.ret,
     known |-> fs.loaded[path].known, expected |-> fs.loaded[path].listing,
     read |-> IF Exists(disk, path) /\ listdir = "ok" THEN Listing(disk, path)
              ELSE {}]
Loaded(path, refresh, r) ==
    IF ~fs.loaded[path].known \/ refresh
    THEN [fs.loaded EXCEPT ![path] = [known |-> TRUE, listing |-> r.ret]]
    ELSE fs.loaded

Ready == fs.pc = "ready" /\ fs.ops < MaxOps

\* get_directory_contents, lines 36-50
FsGet ==
    /\ Ready
    /\ \E path \in Dirs, refresh \in BOOLEAN, listdir \in CallOutcomes :
         LET r == get_directory_contents(fs.directory_cache, fs.disk, path,
                                         refresh, listdir)
         IN fs' = [fs EXCEPT !.ops = @ + 1, !.directory_cache = r.cache,
                             !.loaded = Loaded(path, refresh, r),
                             !.last = Observed("get_directory_contents", path,
                                               refresh, listdir, fs.disk, r)]
    /\ UNCHANGED NotFs

\* contains_file_type, lines 70-75
FsContainsFileType ==
    /\ Ready
    /\ \E folder \in Dirs, listdir \in CallOutcomes :
         LET r == get_directory_contents(fs.directory_cache, fs.disk, folder,
                                         FALSE, listdir)
         IN fs' = [fs EXCEPT !.ops = @ + 1, !.directory_cache = r.cache,
                             !.loaded = Loaded(folder, FALSE, r),
                             !.last = Observed("contains_file_type", folder,
                                               FALSE, listdir, fs.disk, r)]
    /\ UNCHANGED NotFs

\* move_file, lines 89-114: one file from one directory to the other
FsMoveFile ==
    /\ Ready
    /\ \E p \in Dirs, item \in {TraceFile, BracedFile}, move \in CallOutcomes :
         /\ Exists(fs.disk, p) /\ item \in Listing(fs.disk, p)
         /\ fs' = [fs EXCEPT !.ops = @ + 1,
                             !.disk = IF move = "ok"
                                      THEN MovedFile(@, item, p, Other(p)) ELSE @]
    /\ UNCHANGED NotFs

\* move_folder, lines 116-155: one directory to the other path
FsMoveFolder ==
    /\ Ready
    /\ \E p \in Dirs, move \in CallOutcomes :
         /\ Exists(fs.disk, p)
         /\ fs' = [fs EXCEPT !.ops = @ + 1,
                             !.disk = IF move = "ok"
                                      THEN MovedFolder(@, p, Other(p)) ELSE @]
    /\ UNCHANGED NotFs

\* rename_file_without_braces, lines 157-176
FsRename ==
    /\ Ready
    /\ \E p \in Dirs, rename \in CallOutcomes :
         /\ Exists(fs.disk, p) /\ BracedFile \in Listing(fs.disk, p)
         /\ fs' = [fs EXCEPT !.ops = @ + 1,
                             !.disk = IF rename = "ok" THEN Renamed(@, p) ELSE @]
    /\ UNCHANGED NotFs

\* zip_files, lines 187-227, with the archive written into source_folder:
\* ZipFile(zip_path, 'w') creates the archive, then the listing is read
FsZipFiles ==
    /\ Ready
    /\ \E source_folder \in Dirs, listdir \in CallOutcomes :
         IF ~Exists(fs.disk, source_folder)
         THEN fs' = [fs EXCEPT !.ops = @ + 1]
         ELSE LET created == [fs.disk EXCEPT ![source_folder].entries =
                                                 @ \cup {ZipFile}]
                  r == get_directory_contents(fs.directory_cache, created,
                                              source_folder, FALSE, listdir)
              IN fs' = [fs EXCEPT !.ops = @ + 1, !.disk = created,
                                  !.directory_cache = r.cache,
                                  !.loaded = Loaded(source_folder, FALSE, r),
                                  !.last = Observed("zip_files", source_folder,
                                                    FALSE, listdir, created, r)]
    /\ UNCHANGED NotFs

\* another process adds or removes an entry
FsOutsideChange ==
    /\ Ready
    /\ \E p \in Dirs, item \in {TraceFile, ZipFile} :
         /\ Exists(fs.disk, p)
         /\ fs' = [fs EXCEPT !.ops = @ + 1,
                             !.disk[p].entries =
                                 IF item \in @ THEN @ \ {item} ELSE @ \cup {item}]
    /\ UNCHANGED NotFs

NextCache ==
    \/ FsGet
    \/ FsContainsFileType
    \/ FsMoveFile
    \/ FsMoveFolder
    \/ FsRename
    \/ FsZipFiles
    \/ FsOutsideChange

SpecCache == InitCache /\ [][NextCache]_vars

\* C24: once a path has been listed, every later call for it without
\* refresh=True returns the listing of the last load (the first call, or the
\* latest refresh), whatever the directory holds by then; a call with
\* refresh=True reads the directory again and puts what it read in the cache.
C24_CacheOnlyRefreshed ==
    fs.last.op # "none" =>
        /\ (fs.last.known /\ ~fs.last.refresh) => fs.last.ret = fs.last.expected
        /\ (fs.last.refresh \/ ~fs.last.known) => fs.last.ret = fs.last.read
        /\ fs.directory_cache[fs.last.path].cached
        /\ \A p \in Dirs :
              /\ fs.directory_cache[p].cached = fs.loaded[p].known
              /\ fs.directory_cache[p].contents = fs.loaded[p].listing
\* a cached listing answered although the directory had changed under it
C24_Witness ==
    /\ fs.last.op = "get_directory_contents" /\ fs.last.known /\ ~fs.last.refresh
    /\ fs.last.ret = fs.last.expected
    /\ fs.last.ret # Listing(fs.disk, fs.last.path)
    /\ TraceFile \in fs.last.ret /\ ~Exists(fs.disk, fs.last.path)

\* -----------------------------------------------------------------
\* Claims on the dialogs of process_folder
\* -----------------------------------------------------------------

\* C25: the copy-files interaction (select all files, click Open) and the
\* call-bases interaction (click Yes) are attempted only when the dialog is
\* present: after a copy-files or call-bases wait that timed out with no such
\* window, no select-all and no button click or Enter fallback is attempted.
C25_InteractOnlyWhenPresent ==
    /\ h.copy = "no" =>
          {"select_all_files", "click_copy_open"} \cap Range(trace) = {}
    /\ h.callb = "no" => "click_call_bases_yes" \notin Range(trace)

\* C26: the first-browse flag starts true, is set to false by the first
\* process_folder call that obtains a browse dialog, stays true across calls
\* that fail before that point, and once false is never set back to true by
\* a later process_folder or close call; so the settle delay, which goes
\* with the change of the flag, happens at most once.
C26_FirstBrowseOnce ==
    [][first_time_browsing' =
          (first_time_browsing /\ ~(pc = "get_browse" /\ pc' = "navigate"))]_vars
C26_Witness ==
    /\ calls = 2 /\ lastOp = "process_folder" /\ pc = "navigate"
    /\ ~h.entryFirst /\ ~first_time_browsing

ConnectStepDone ==
    /\ lastOp = "process_folder" /\ h.kind = "has_ab1"
    /\ pc \notin {"preclean", "connect"}
SessionLive ==
    h.entryApp # None /\ h.entryMain # None /\ h.mwExists = "yes"

\* C27: a process_folder call that starts with an app handle and a
\* main-window handle whose window still exists does not attach or launch
\* and keeps the same handles; it reconnects exactly when the app handle is
\* missing, the main-window handle is missing, or the window is gone.
C27_SessionPersists ==
    ConnectStepDone =>
        /\ (h.attach = "na") <=> SessionLive
        /\ SessionLive =>
              /\ app = h.entryApp /\ main_window = h.entryMain
              /\ {"attach", "launch"} \cap Range(trace) = {}
C27_Witness ==
    /\ ConnectStepDone /\ SessionLive /\ calls = 2 /\ pc = "new_project"
    /\ app = h.entryApp /\ main_window = h.entryMain

\* C29: whenever the error-dialog wait detects an error window,
\* process_folder dismisses it (clicks OK or sends the Enter fallback)
\* before it goes on to the call-bases step.
C29_ErrorDialogDismissed ==
    h.errWait = "yes" => "click_error_ok" \in Range(trace)

\* =================================================================
\* DialogHandler.wait_for_dialog for the kind "error_window"
\* =================================================================

\* titles of the window the application shows during the wait
TitleFileError ==
    <<"F", "i", "l", "e", " ", "e", "r", "r", "o", "r">>
TitleError ==
    <<"E", "r", "r", "o", "r">>
TitleFileErrorUpper ==
    <<"F", "I", "L", "E", " ", "E", "R", "R", "O", "R">>
TitleErrorUpper ==
    <<"E", "R", "R", "O", "R">>
TitleReadInfo ==
    <<"R", "e", "a", "d", " ", "i", "n", "f", "o", "r", "m", "a", "t", "i", "o", "n", " ", "f", "o", "r", " ", "x">>
WindowTitles == {TitleFileError, TitleError, TitleFileErrorUpper, TitleErrorUpper,
                 TitleReadInfo}

\* wait_for_dialog, line 83: title_re='.*[Ee]rror.*', matched from the start
\* of the title
error_title_re(title) ==
    \E i \in 1..Len(title) :
        /\ title[i] \in {"E", "e"}
        /\ OccursAt(title, <<"r", "r", "o", "r">>, i + 1)
        /\ NoNewline(title, 1, i - 1)

\* the window opens at tick shown_at and stays; MaxDialogTicks + 1 is never
InitErr ==
    /\ OrchInit
    /\ wc = Unused /\ nv = Unused /\ pu = Unused /\ fs = Unused
    /\ desk = Unused
    /\ wd \in {[pc |-> "start", kind |-> "error_window", title |-> t,
               shown_at |-> s, timeout |-> n, clock |-> 0, polls |-> 0,
               matched |-> FALSE, ret |-> "none"] :
               t \in WindowTitles, s \in 0..(MaxDialogTicks + 1),
               n \in 0..MaxDialogTicks}

\* one evaluation of the lambda of line 83 by timings.wait_until
ErrPoll ==
    /\ wd.pc \in {"start", "slept"}
    /\ LET exists == wd.shown_at <= wd.clock /\ error_title_re(wd.title)
       IN wd' = IF exists
                THEN [wd EXCEPT !.pc = "done", !.polls = @ + 1, !.matched = TRUE,
                                !.ret = wait_for_dialog_result(TRUE, TRUE)]
                ELSE [wd EXCEPT !.pc = "polled", !.polls = @ + 1]
    /\ UNCHANGED NotWd

\* timings.wait_until: time is left, sleep one retry interval
ErrSleep ==
    /\ wd.pc = "polled"
    /\ wd.timeout - wd.clock > 0
    /\ \E d \in 1..2 : wd' = [wd EXCEPT !.pc = "slept", !.clock = @ + d]
    /\ UNCHANGED NotWd

\* timings.wait_until: no time is left, TimeoutError (lines 94-95)
ErrTimeout ==
    /\ wd.pc = "polled"
    /\ wd.timeout - wd.clock <= 0
    /\ wd' = [wd EXCEPT !.pc = "done",
                        !.ret = wait_for_dialog_result(TRUE, FALSE)]
    /\ UNCHANGED NotWd

NextErr ==
    \/ ErrPoll
    \/ ErrSleep
    \/ ErrTimeout

SpecErrorWait == InitErr /\ [][NextErr]_vars

LitError == <<"e", "r", "r", "o", "r">>

\* C28: wait_for_dialog for the generic error kind recognises every window
\* whose title contains the word 'error' in any letter case: with such a
\* window on screen from the start of the wait, the wait returns true.
C28_ErrorTitleAnyCase ==
    (/\ wd.pc = "done" /\ wd.shown_at = 0
     /\ Contains(LowerStr(wd.title), LitError)) => wd.ret = "true"

\* =================================================================
\* DialogHandler.click_button, label by label
\* =================================================================

\* most labels in button_titles
MaxLabels == 2

\* the labels process_folder passes
ButtonLabels == {"OK", "&OK", "&Yes"}
\* what the dialog answers for one label: no such button, a button that
\* takes the click, or a button whose click_input() raises
ButtonOutcomes == {"absent", "clicked", "click_raises"}

\* click_button, lines 127-135: what follows the try on one label
after_label_StopOnError(outcome) ==
    IF outcome = "clicked" THEN "return_true"
    ELSE IF outcome = "absent" THEN "next_label" ELSE "return_false"
after_label(outcome) ==
    IF outcome = "clicked" THEN "return_true" ELSE "next_label"

\* click_button, lines 137-144: the Enter fallback
fallback(focus, keys) ==
    IF focus = "raise" THEN [ret |-> "false", log |-> <<<<"set_focus", "raise">>>>]
    ELSE IF keys = "raise"
    THEN [ret |-> "false", log |-> <<<<"set_focus", "ok">>, <<"enter", "raise">>>>]
    ELSE [ret |-> "true", log |-> <<<<"set_focus", "ok">>, <<"enter", "ok">>>>]

InitCb ==
    /\ OrchInit
    /\ wc = Unused /\ nv = Unused /\ pu = Unused /\ fs = Unused
    /\ desk = Unused
    /\ wd \in {[pc |-> "labels", button_titles |-> t, idx |-> 1, log |-> <<>>,
               ret |-> "none"] : t \in SeqsUpTo(ButtonLabels, MaxLabels)}

\* click_button, lines 127-135: one pass of the loop
CbTryLabel ==
    /\ wd.pc = "labels"
    /\ wd.idx <= Len(wd.button_titles)
    /\ \E outcome \in ButtonOutcomes :
         LET title == wd.button_titles[wd.idx]
             events == CASE outcome = "absent" -> <<<<"exists", title>>>>
                         [] outcome = "clicked" ->
                              <<<<"exists", title>>, <<"click", title>>>>
                         [] OTHER ->
                              <<<<"exists", title>>, <<"click_raise", title>>>>
             step == after_label(outcome)
         IN wd' = IF step = "return_true"
                  THEN [wd EXCEPT !.pc = "done", !.ret = "true", !.log = @ \o events]
                  ELSE IF step = "return_false"
                  THEN [wd EXCEPT !.pc = "done", !.ret = "false", !.log = @ \o events]
                  ELSE [wd EXCEPT !.idx = @ + 1, !.log = @ \o events]
    /\ UNCHANGED NotWd

\* click_button, lines 137-144
CbFallback ==
    /\ wd.pc = "labels"
    /\ wd.idx > Len(wd.button_titles)
    /\ \E focus \in CallOutcomes, keys \in CallOutcomes :
         LET r == fallback(focus, keys)
         IN wd' = [wd EXCEPT !.pc = "done", !.ret = r.ret, !.log = @ \o r.log]
    /\ UNCHANGED NotWd

NextCb ==
    \/ CbTryLabel
    \/ CbFallback

SpecClickButton == InitCb /\ [][NextCb]_vars

Tried == SelectSeq(wd.log, LAMBDA e : e[1] = "exists")
Kinds(log) == {log[j][1] : j \in 1..Len(log)}

\* C30: click_button tries the labels in list order; the first labelled
\* button that exists and takes the click ends the call with true, without
\* a later label being tried or a keystroke sent; the Enter fallback is sent
\* only when no labelled button was clicked; false is returned only when the
\* fallback could not be delivered.
C30_ClickButtonOrder ==
    /\ Len(Tried) <= Len(wd.button_titles)
    /\ \A k \in 1..Len(Tried) : Tried[k][2] = wd.button_titles[k]
    /\ \A j \in 1..Len(wd.log) :
          wd.log[j][1] = "click" =>
             j = Len(wd.log) /\ wd.pc = "done" /\ wd.ret = "true"
    /\ "set_focus" \in Kinds(wd.log) =>
          /\ "click" \notin Kinds(wd.log)
          /\ Len(Tried) = Len(wd.button_titles)
    /\ (wd.pc = "done" /\ wd.ret = "false") =>
          \/ wd.log[Len(wd.log)] = <<"set_focus", "raise">>
          \/ wd.log[Len(wd.log)] = <<"enter", "raise">>
    /\ (wd.pc = "done" /\ wd.ret = "true") =>
          \/ wd.log[Len(wd.log)][1] = "click"
          \/ wd.log[Len(wd.log)] = <<"enter", "ok">>
C30_Witness ==
    /\ wd.pc = "done" /\ wd.ret = "true" /\ Len(wd.button_titles) = 2
    /\ wd.log = <<<<"exists", wd.button_titles[1]>>,
                  <<"click_raise", wd.button_titles[1]>>,
                  <<"exists", wd.button_titles[2]>>,
                  <<"click", wd.button_titles[2]>>>>

\* =================================================================
\* DialogHandler.select_all_files, strategy by strategy
\* =================================================================

\* rectangles the dialog may report to rectangle()
Rects == {[left |-> l, right |-> r, top |-> 0, bottom |-> b] :
             l \in {0, 1}, r \in {4, 5}, b \in {2, 4}}

\* select_all_files, lines 152-156 and 162-166: a list view that exists is
\* clicked and sent Ctrl+A; an exception leaves the try without returning
list_view_select_FailOnRaise(n, exists, click, keys) ==
    IF ~exists THEN [step |-> "fall_through", log |-> <<<<n, "list_exists", "no">>>>]
    ELSE IF click = "raise"
    THEN [step |-> "return_false",
          log |-> <<<<n, "list_exists", "yes">>, <<n, "click", "raise">>>>]
    ELSE IF keys = "raise"
    THEN [step |-> "fall_through",
          log |-> <<<<n, "list_exists", "yes">>, <<n, "click", "ok">>,
                    <<n, "select_all", "raise">>>>]
    ELSE [step |-> "return_true",
          log |-> <<<<n, "list_exists", "yes">>, <<n, "click", "ok">>,
                    <<n, "select_all", "ok">>>>]
list_view_select(n, exists, click, keys) ==
    IF ~exists THEN [step |-> "fall_through", log |-> <<<<n, "list_exists", "no">>>>]
    ELSE IF click = "raise"
    THEN [step |-> "fall_through",
          log |-> <<<<n, "list_exists", "yes">>, <<n, "click", "raise">>>>]
    ELSE IF keys = "raise"
    THEN [step |-> "fall_through",
          log |-> <<<<n, "list_exists", "yes">>, <<n, "click", "ok">>,
                    <<n, "select_all", "raise">>>>]
    ELSE [step |-> "return_true",
          log |-> <<<<n, "list_exists", "yes">>, <<n, "click", "ok">>,
                    <<n, "select_all", "ok">>>>]

\* select_all_files, lines 148-158: the list view inside the shell view
primary(shell, exists, click, keys) ==
    IF ~shell THEN [step |-> "fall_through", log |-> <<<<1, "shell_exists", "no">>>>]
    ELSE LET r == list_view_select(1, exists, click, keys)
         IN [step |-> r.step, log |-> <<<<1, "shell_exists", "yes">>>> \o r.log]

\* select_all_files, lines 160-168: the list view directly under the dialog
secondary(exists, click, keys) == list_view_select(2, exists, click, keys)

\* select_all_files, line 173: the point that is clicked
centre(rect) ==
    <<(rect.right - rect.left) \div 2, (rect.bottom - rect.top) \div 2>>

\* select_all_files, lines 171-178: click the centre, then Ctrl+A
last_resort(rectangle, click, keys) ==
    IF rectangle = "raise"
    THEN [ret |-> "false", log |-> <<<<3, "rectangle", "raise">>>>]
    ELSE IF click = "raise"
    THEN [ret |-> "false",
          log |-> <<<<3, "rectangle", "ok">>, <<3, "click", "raise">>>>]
    ELSE IF keys = "raise"
    THEN [ret |-> "false",
          log |-> <<<<3, "rectangle", "ok">>, <<3, "click", "ok">>,
                    <<3, "select_all", "raise">>>>]
    ELSE [ret |-> "true",
          log |-> <<<<3, "rectangle", "ok">>, <<3, "click", "ok">>,
                    <<3, "select_all", "ok">>>>]

InitSa ==
    /\ OrchInit
    /\ wc = Unused /\ nv = Unused /\ pu = Unused /\ fs = Unused
    /\ desk = Unused
    /\ wd = [pc |-> "primary", log |-> <<>>, coords |-> <<>>, ret |-> "none"]

SaAfter(r, next) ==
    IF r.step = "return_true"
    THEN [wd EXCEPT !.pc = "done", !.ret = "true", !.log = @ \o r.log]
    ELSE IF r.step = "return_false"
    THEN [wd EXCEPT !.pc = "done", !.ret = "false", !.log = @ \o r.log]
    ELSE [wd EXCEPT !.pc = next, !.log = @ \o r.log]

\* select_all_files, lines 148-158
SaPrimary ==
    /\ wd.pc = "primary"
    /\ \E shell \in BOOLEAN, exists \in BOOLEAN,
          click \in CallOutcomes, keys \in CallOutcomes :
         wd' = SaAfter(primary(shell, exists, click, keys), "secondary")
    /\ UNCHANGED NotWd

\* select_all_files, lines 160-168
SaSecondary ==
    /\ wd.pc = "secondary"
    /\ \E exists \in BOOLEAN, click \in CallOutcomes, keys \in CallOutcomes :
         wd' = SaAfter(secondary(exists, click, keys), "last_resort")
    /\ UNCHANGED NotWd

\* select_all_files, lines 170-178
SaLastResort ==
    /\ wd.pc = "last_resort"
    /\ \E rectangle \in CallOutcomes, rect \in Rects,
          click \in CallOutcomes, keys \in CallOutcomes :
         LET r == last_resort(rectangle, click, keys)
         IN wd' = [wd EXCEPT !.pc = "done", !.ret = r.ret, !.log = @ \o r.log,
                             !.coords = IF rectangle = "ok" THEN centre(rect)
                                        ELSE <<>>]
    /\ UNCHANGED NotWd

NextSa ==
    \/ SaPrimary
    \/ SaSecondary
    \/ SaLastResort

SpecSelectAll == InitSa /\ [][NextSa]_vars

Raised(n) == \E j \in 1..Len(wd.log) : wd.log[j][1] = n /\ wd.log[j][3] = "raise"
Attempted(n) == \E j \in 1..Len(wd.log) : wd.log[j][1] = n
InOrder ==
    /\ \A j, k \in 1..Len(wd.log) : j < k => wd.log[j][1] <= wd.log[k][1]
    /\ Attempted(2) => Attempted(1)
    /\ Attempted(3) => Attempted(2)
StopsAtSuccess ==
    \A j \in 1..Len(wd.log) :
       (wd.log[j][2] = "select_all" /\ wd.log[j][3] = "ok") <=>
          (j = Len(wd.log) /\ wd.pc = "done" /\ wd.ret = "true")

\* C31 as stated: the strategies run in order, the first success ends the
\* call with true, and false is returned only if all three strategies raised.
C31_Original ==
    /\ InOrder
    /\ StopsAtSuccess
    /\ (wd.pc = "done" /\ wd.ret = "false") => Raised(1) /\ Raised(2) /\ Raised(3)

\* C31: select_all_files runs its strategies in order (primary list view,
\* secondary list view, click-centre-then-select-all) and the first
\* successful select-all ends the call with true; false is returned exactly
\* when the last strategy raised, after each list-view strategy either
\* raised or found no list view to act on.
C31_SelectAllStrategies ==
    /\ InOrder
    /\ StopsAtSuccess
    /\ (wd.pc = "done" /\ wd.ret = "false") <=>
          (Raised(3) /\ Attempted(1) /\ Attempted(2))
    /\ wd.coords # <<>> => wd.coords \in {centre(r) : r \in Rects}
C31_Witness ==
    /\ wd.pc = "done" /\ wd.ret = "false"
    /\ ~Raised(1) /\ Raised(2) /\ Raised(3)

\* =================================================================
\* DialogHandler.close_all_read_info_dialogs, window by window
\* =================================================================

\* most read-info windows open at once
MaxWindows == 2
\* window handles find_elements may report
Handles == {11, 12, 13}
\* what happens to one window inside the inner try: it is closed, the
\* title read at line 192 raises (close() is then not reached), or close()
\* raises
CloseOutcomes == {"closed", "text_raises", "close_raises"}

\* lists of distinct handles
HandleLists ==
    {s \in SeqsUpTo(Handles, MaxWindows) :
        \A j, k \in 1..Len(s) : j # k => s[j] # s[k]}

\* close_all_read_info_dialogs, lines 190-195: what follows one window
after_window_StopOnError(outcome) ==
    IF outcome = "closed" THEN "next_window" ELSE "return_false"
after_window(outcome) == "next_window"

\* close_all_read_info_dialogs, lines 197 and 200: the value returned
read_info_result(enumeration, read_windows) ==
    close_all_read_info_dialogs(
        IF enumeration = "raise" THEN "raise"
        ELSE IF Len(read_windows) > 0 THEN "some" ELSE "none")

InitRi ==
    /\ OrchInit
    /\ wc = Unused /\ nv = Unused /\ pu = Unused /\ fs = Unused
    /\ desk = Unused
    /\ wd = [pc |-> "enumerate", enumeration |-> "none", read_windows |-> <<>>,
             idx |-> 1, log |-> <<>>, ret |-> "none"]

\* close_all_read_info_dialogs, lines 184-187 (and 198-200 when it raises)
RiEnumerate ==
    /\ wd.pc = "enumerate"
    /\ \/ wd' = [wd EXCEPT !.pc = "done", !.enumeration = "raise",
                           !.ret = YesNo(read_info_result("raise", <<>>))]
       \/ \E found \in HandleLists :
            wd' = [wd EXCEPT !.pc = "windows", !.enumeration = "ok",
                             !.read_windows = found]
    /\ UNCHANGED NotWd

\* close_all_read_info_dialogs, lines 189-195: one pass of the loop
RiClose ==
    /\ wd.pc = "windows"
    /\ wd.idx <= Len(wd.read_windows)
    /\ \E outcome \in CloseOutcomes :
         LET entry == <<wd.read_windows[wd.idx], outcome>>
         IN wd' = IF after_window(outcome) = "next_window"
                  THEN [wd EXCEPT !.idx = @ + 1, !.log = Append(@, entry)]
                  ELSE [wd EXCEPT !.pc = "done", !.ret = "no",
                                  !.log = Append(@, entry)]
    /\ UNCHANGED NotWd

\* close_all_read_info_dialogs, line 197
RiReturn ==
    /\ wd.pc = "windows"
    /\ wd.idx > Len(wd.read_windows)
    /\ wd' = [wd EXCEPT !.pc = "done",
                        !.ret = YesNo(read_info_result("ok", wd.read_windows))]
    /\ UNCHANGED NotWd

NextRi ==
    \/ RiEnumerate
    \/ RiClose
    \/ RiReturn

SpecReadInfo == InitRi /\ [][NextRi]_vars

\* C32: close_all_read_info_dialogs takes the enumerated read-info windows
\* one by one in the order found and goes on to the next window after a
\* window whose title read or close() raised, so that every enumerated
\* window has had its close attempt when the call returns; it returns true
\* exactly when the enumeration succeeded and found at least one window,
\* whatever the close attempts did, and false when none was found or the
\* enumeration raised.
C32_CloseEveryReadInfo ==
    /\ Len(wd.log) <= Len(wd.read_windows)
    /\ \A k \in 1..Len(wd.log) : wd.log[k][1] = wd.read_windows[k]
    /\ wd.pc = "done" =>
          /\ Len(wd.log) = Len(wd.read_windows)
          /\ wd.ret = "yes" <=>
                (wd.enumeration = "ok" /\ Len(wd.read_windows) > 0)
          /\ wd.ret = "no" <=>
                (wd.enumeration = "raise" \/ Len(wd.read_windows) = 0)
C32_Witness ==
    /\ wd.pc = "done" /\ wd.ret = "yes" /\ Len(wd.read_windows) = 2
    /\ wd.log[1][2] = "close_raises" /\ wd.log[2][2] = "text_raises"

\* =================================================================
\* FileNavigator.navigate_to_folder: the drive node
\* =================================================================

SomeChild(Test(_)) ==
    \E i \in 1..Len(nv.scan.children) : Test(nv.scan.children[i])
Chosen == nv.scan.children[nv.scan.item]

\* C33: among the children of This PC the drive node is chosen by
\* preference, whatever their order: a child whose label equals the drive
\* token before one that only contains it, and that before one matched only
\* by its drive letter; the configured alias is used only when no child
\* matches by any of the three rules.
C33_DrivePreference ==
    (nv.scan.made /\ nv.scan.item # 0) =>
        /\ SomeChild(LAMBDA t : ExactMatch(t, nv.drive)) =>
              ExactMatch(Chosen, nv.drive)
        /\ SomeChild(LAMBDA t : ContainsMatch(t, nv.drive)) =>
              ContainsMatch(Chosen, nv.drive)
        /\ SomeChild(LAMBDA t : LetterMatch(t, nv.drive)) =>
              drive_match(Chosen, nv.drive)
        /\ ~drive_match(Chosen, nv.drive) =>
              /\ ~SomeChild(LAMBDA t : drive_match(t, nv.drive))
              /\ nv.mapped_name # <<>> /\ Contains(Chosen, nv.mapped_name)

\* the path names no folder below the drive
NoFolderBelowDrive == \A i \in 1..Len(nv.segs) : nv.segs[i] = <<>>
ClickedSegments == {nv.log[j][2] : j \in {k \in 1..Len(nv.log) :
                                            nv.log[k][1] = "click"}} \ {0}

\* C34: for a path with no folder segment below the drive, a trailing
\* separator included, navigate_to_folder selects the drive node and
\* returns true without expanding the drive or selecting a child below it;
\* for no path does it select a child for an empty segment.
C34_DriveOnlyPath ==
    /\ \A i \in ClickedSegments : nv.folders[i] # <<>>
    /\ NoFolderBelowDrive =>
          /\ \A j \in 1..Len(nv.log) : nv.log[j][1] # "expand"
          /\ ClickedSegments = {}
          /\ (nv.scan.made /\ nv.scan.item # 0 /\ nv.ret # "raise"
              /\ nv.pc = "done") => nv.ret = "true"

\* =================================================================
\* Claims on is_bioi_folder, get_order_number and the suffix tokens
\* =================================================================

BeginsWithBioI(t) ==
    /\ Len(t) >= 6
    /\ LowerStr(SubSeq(t, 1, 5)) = LitBioi
    /\ t[6] \in Digits

\* C35: is_bioi_folder(name) is true exactly when the name begins with
\* 'bioi-' followed by a digit, in any letter case; a name that holds that
\* token only after other characters is not a BioI folder.
C35_BioIPrefixOnly ==
    pu.pc = "done" => (pu.is_bioi <=> BeginsWithBioI(pu.input))

\* index of the last '_' of t, 0 when t has none
LastUnderscore(t) ==
    IF "_" \notin Chars(t) THEN 0
    ELSE CHOOSE u \in 1..Len(t) :
            t[u] = "_" /\ \A k \in (u + 1)..Len(t) : t[k] # "_"
\* BioI-<digits>_<text>_<digits>
IsOrderForm(t) ==
    /\ BeginsWithBioI(t)
    /\ LET first == 6 + DigitRun(t, 6)
           last == LastUnderscore(t)
       IN /\ first <= Len(t) /\ t[first] = "_"
          /\ last > first + 1
          /\ AllDigits(t, last + 1, Len(t))
TrailingGroup(t) == SubSeq(t, LastUnderscore(t) + 1, Len(t))
\* some '_<digits>' is followed by the end of the name or by '_'
HasOrderGroup(t) ==
    \E i \in 1..Len(t), j \in 1..Len(t) :
       /\ i < j /\ t[i] = "_" /\ AllDigits(t, i + 1, j)
       /\ (j = Len(t) \/ t[j + 1] = "_")

\* C36: for every name of the form BioI-<digits>_<text>_<digits>,
\* get_order_number returns the final digit group, also when <text> holds
\* an all-digit part between underscores; it returns null exactly when the
\* name has no '_<digits>' group followed by the end of the name or '_'.
C36_OrderNumberIsTrailingGroup ==
    pu.pc = "done" =>
        /\ IsOrderForm(pu.input) => pu.order_number = TrailingGroup(pu.input)
        /\ pu.order_number = NoMatch <=> ~HasOrderGroup(pu.input)

\* C37: for every input, with or without the extension removed, the output
\* of normalize_filename contains neither '_Premixed' nor '_RTI'.
C37_NoSuffixTokenInOutput ==
    pu.pc = "done" =>
        /\ ~Contains(pu.norm, TokPremixed) /\ ~Contains(pu.norm, TokRTI)
        /\ ~Contains(pu.normExt, TokPremixed) /\ ~Contains(pu.normExt, TokRTI)

\* =================================================================
\* Output files left in the folder by an earlier run
\* =================================================================

\* C39: the file count takes in every output text file of the folder, also
\* those that were there before the run: with at least 5 of them in the
\* folder beforehand, the first poll of wait_for_completion ends the wait
\* with true whatever the application has written since, and when no
\* notification or read-info window is open it does so on the file count.
C39_StaleFilesSignalCompletion ==
    (wc.stale_txt >= TxtThreshold /\ wc.polls > 0) =>
        /\ wc.polls = 1 /\ wc.pc = "done" /\ wc.ret = "true"
        /\ (~wc.env.low1 /\ ~wc.env.low2 /\ wc.env.ri # "some") =>
              /\ wc.checks[Len(wc.checks)] = "count_files"
              /\ wc.env.txt >= wc.stale_txt
C39_Witness ==
    /\ wc.pc = "done" /\ wc.ret = "true" /\ wc.polls = 1
    /\ wc.stale_txt = TxtThreshold /\ wc.env.txt = wc.stale_txt
    /\ ~wc.env.low1 /\ ~wc.env.low2 /\ wc.env.ri = "none"

\* =================================================================
\* The browse dialog after a failed navigation
\* =================================================================

\* C40: process_folder leaves the browse dialog alone on its failure path:
\* when it has returned false because navigation failed, the dialog it
\* opened is still on screen, and a process_folder call that follows on the
\* same session sends its new-project keystroke with that dialog present.
C40_BrowseDialogLeftOpen ==
    /\ (/\ pc = "done" /\ lastOp = "process_folder"
        /\ ret = "false" /\ h.nav = "false") => browse_open
    /\ (/\ h.afterNavFailure /\ h.mwExists = "yes"
        /\ "new_project" \in Range(trace)) => h.keyWhileBrowse = "yes"
C40_Witness ==
    /\ h.afterNavFailure /\ h.mwExists = "yes"
    /\ pc = "wait_browse" /\ h.keyWhileBrowse = "yes" /\ browse_open

\* =================================================================
\* Two orchestrators, each with its own mSeq process, on one desktop
\* =================================================================

Instances == {1, 2}

\* pywinauto's send_keys (lines 140, 155, 542) types into whatever window
\* has the keyboard focus at that moment; it takes no window argument
send_keys(foreground) == foreground
\* set_focus() and click_input() on a window of instance i (lines 139,
\* 154, 239, 539) bring that window to the foreground
set_focus(i) == i

\* the steps of process_folder that take the focus or type
StepAfter(step) ==
    CASE step = "connect" -> "focus_main"
      [] step = "focus_main" -> "new_project"
      [] step = "new_project" -> "browse"
      [] step = "browse" -> "ok_button"
      [] step = "fallback_focus" -> "fallback_enter"
      [] step = "fallback_enter" -> "select_click"
      [] step = "select_click" -> "select_all"
      [] OTHER -> "done"

NoSession == [app |-> None, main_window |-> None, first_time_browsing |-> TRUE]

NotDesk == <<OrchVars, wd, wc, nv, pu, fs>>

InitDesk ==
    /\ OrchInit
    /\ wd = Unused /\ wc = Unused /\ nv = Unused /\ pu = Unused /\ fs = Unused
    /\ desk = [pc |-> [i \in Instances |-> "connect"],
               session |-> [i \in Instances |-> NoSession],
               foreground |-> 0, keys |-> {}, foreign |-> FALSE]

\* one step of instance i: its new position, its session, the window in
\* front and the keystroke typed, if any
DeskStep(i, next, session, front, typed) ==
    desk' = [desk EXCEPT
               !.pc[i] = next,
               !.session[i] = session,
               !.foreground = front,
               !.keys = @ \cup typed,
               !.foreign = @ \/ \E j \in Instances \ {i} :
                                   [desk.session EXCEPT ![i] = session][j]
                                      # desk.session[j]]
Raise(i) == DeskStep(i, "raised", desk.session[i], desk.foreground, {})
Key(i, k) == {[sender |-> i, key |-> k, receiver |-> send_keys(desk.foreground)]}

\* process_folder, lines 536-537: each instance connects to its own process
DkConnect(i) ==
    /\ desk.pc[i] = "connect"
    /\ \E o \in CallOutcomes :
         IF o = "raise" THEN Raise(i)
         ELSE DeskStep(i, StepAfter("connect"),
                       [desk.session[i] EXCEPT !.app = i, !.main_window = i],
                       desk.foreground, {})
    /\ UNCHANGED NotDesk

\* process_folder, line 539
DkFocusMain(i) ==
    /\ desk.pc[i] = "focus_main"
    /\ \E o \in CallOutcomes :
         IF o = "raise" THEN Raise(i)
         ELSE DeskStep(i, StepAfter("focus_main"), desk.session[i],
                       set_focus(i), {})
    /\ UNCHANGED NotDesk

\* process_folder, line 542
DkNewProject(i) ==
    /\ desk.pc[i] = "new_project"
    /\ \E o \in CallOutcomes :
         IF o = "raise" THEN Raise(i)
         ELSE DeskStep(i, StepAfter("new_project"), desk.session[i],
                       desk.foreground, Key(i, "^n"))
    /\ UNCHANGED NotDesk

\* process_folder, lines 545-564: the first-browse flag, and the
\* dialog.set_focus() of navigate_to_folder (line 239)
DkBrowse(i) ==
    /\ desk.pc[i] = "browse"
    /\ \E o \in CallOutcomes :
         IF o = "raise"
         THEN DeskStep(i, "raised",
                       [desk.session[i] EXCEPT !.first_time_browsing =
                            after_first_browse(@)],
                       desk.foreground, {})
         ELSE DeskStep(i, StepAfter("browse"),
                       [desk.session[i] EXCEPT !.first_time_browsing =
                            after_first_browse(@)],
                       set_focus(i), {})
    /\ UNCHANGED NotDesk

\* click_button, lines 127-135: the labelled button takes the click, or
\* there is none and the fallback follows
DkOkButton(i) ==
    /\ desk.pc[i] = "ok_button"
    /\ \E outcome \in ButtonOutcomes :
         IF after_label(outcome) = "return_true"
         THEN DeskStep(i, "select_click", desk.session[i], set_focus(i), {})
         ELSE DeskStep(i, "fallback_focus", desk.session[i], desk.foreground, {})
    /\ UNCHANGED NotDesk

\* click_button, line 139
DkFallbackFocus(i) ==
    /\ desk.pc[i] = "fallback_focus"
    /\ \E o \in CallOutcomes :
         \* the except of line 143 ends click_button, process_folder goes on
         IF o = "raise"
         THEN DeskStep(i, "select_click", desk.session[i], desk.foreground, {})
         ELSE DeskStep(i, StepAfter("fallback_focus"), desk.session[i],
                       set_focus(i), {})
    /\ UNCHANGED NotDesk

\* click_button, line 140
DkFallbackEnter(i) ==
    /\ desk.pc[i] = "fallback_enter"
    /\ \E o \in CallOutcomes :
         DeskStep(i, StepAfter("fallback_enter"), desk.session[i],
                  desk.foreground,
                  IF o = "raise" THEN {} ELSE Key(i, "{ENTER}"))
    /\ UNCHANGED NotDesk

\* select_all_files, lines 154 and 164: the click on the list view
DkSelectClick(i) ==
    /\ desk.pc[i] = "select_click"
    /\ \E o \in CallOutcomes :
         \* an exception is swallowed by select_all_files
         IF o = "raise"
         THEN DeskStep(i, "done", desk.session[i], desk.foreground, {})
         ELSE DeskStep(i, StepAfter("select_click"), desk.session[i],
                       set_focus(i), {})
    /\ UNCHANGED NotDesk

\* select_all_files, lines 155 and 165
DkSelectAll(i) ==
    /\ desk.pc[i] = "select_all"
    /\ \E o \in CallOutcomes :
         DeskStep(i, StepAfter("select_all"), desk.session[i], desk.foreground,
                  IF o = "raise" THEN {} ELSE Key(i, "^a"))
    /\ UNCHANGED NotDesk

\* the two calls run in separate processes: their steps interleave freely
NextDesk ==
    \E i \in Instances :
       \/ DkConnect(i)
       \/ DkFocusMain(i)
       \/ DkNewProject(i)
       \/ DkBrowse(i)
       \/ DkOkButton(i)
       \/ DkFallbackFocus(i)
       \/ DkFallbackEnter(i)
       \/ DkSelectClick(i)
       \/ DkSelectAll(i)

SpecDesk == InitDesk /\ [][NextDesk]_vars

\* C38: with a process of its own for each orchestrator, every keystroke an
\* orchestrator sends (new-project, the Enter fallback, select-all) reaches
\* a window of its own application under every interleaving, and no step
\* of one orchestrator changes the session state of the other.
C38_InstancesDoNotInterfere ==
    /\ \A k \in desk.keys : k.receiver = k.sender
    /\ ~desk.foreign

====
